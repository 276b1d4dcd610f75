-------------------------- MODULE SsmListingProofs --------------------------
(***************************************************************************)
(* For every finite set of keys, every order of them, whatever the regular *)
(* expressions find and however pages are cut: what a listing lists.       *)
(***************************************************************************)
EXTENDS SsmListing, FiniteSetTheorems, WellFoundedInduction, TLAPS

(* The first keys are before all others.                                   *)
LEMMA FirstBeforeRest ==
  ASSUME NEW keys \in SUBSET Key, NEW n \in Int,
         NEW k \in FirstOf(keys, n), NEW j \in keys \ FirstOf(keys, n)
  PROVE  Rank[k] < Rank[j]
<1>. DEFINE Before(i) == {m \in keys : Rank[m] < Rank[i]}
<1>1. Rank[k] \in Nat /\ Rank[j] \in Nat /\ \A m \in keys : Rank[m] \in Nat
  BY SsmListingAssumption DEF FirstOf
<1>2. SUFFICES ASSUME Rank[j] <= Rank[k] PROVE FALSE
  BY <1>1
<1>3. Before(j) \subseteq Before(k)
  BY <1>1, <1>2
<1>4. IsFiniteSet(Before(k)) /\ IsFiniteSet(Before(j))
  <2>1. IsFiniteSet(Key)
    BY SsmListingAssumption
  <2>2. Before(k) \in SUBSET Key /\ Before(j) \in SUBSET Key
    OBVIOUS
  <2>. HIDE DEF Before
  <2>. QED
    BY <2>1, <2>2, FS_Subset
<1>5. /\ Cardinality(Before(j)) <= Cardinality(Before(k))
      /\ Cardinality(Before(j)) \in Int /\ Cardinality(Before(k)) \in Int
  <2>. HIDE DEF Before
  <2>. QED
    BY <1>3, <1>4, FS_Subset, FS_CardinalityType
<1>6. Cardinality(Before(k)) < n
  BY DEF FirstOf
<1>7. ~ (Cardinality(Before(j)) < n)
  BY DEF FirstOf
<1>. QED
  BY <1>5, <1>6, <1>7

LEMMA LeastIsLeast ==
  ASSUME NEW keys \in SUBSET Key, keys # {}
  PROVE  Least(keys) \in keys /\ \A j \in keys : Rank[Least(keys)] <= Rank[j]
<1>. DEFINE less == {ss \in Nat \X Nat : ss[1] < ss[2]}
            ranks == {Rank[k] : k \in keys}
<1>1. IsWellFoundedOn(less, Nat)
  BY NatLessThanWellFounded DEF OpToRel
<1>2. ranks \subseteq Nat /\ ranks # {}
  BY SsmListingAssumption
<1>3. PICK x \in ranks : \A y \in ranks : ~ (<<y, x>> \in less)
  <2>. HIDE DEF less, ranks
  <2>. QED
    BY <1>1, <1>2, WFMin
<1>4. PICK k \in keys : Rank[k] = x
  OBVIOUS
<1>5. ASSUME NEW j \in keys PROVE Rank[k] <= Rank[j]
  <2>1. Rank[j] \in ranks /\ Rank[j] \in Nat /\ x \in Nat
    BY <1>2
  <2>2. <<Rank[j], x>> \notin less
    BY <1>3, <2>1
  <2>3. ~ (Rank[j] < x)
    BY <2>1, <2>2
  <2>. QED
    BY <1>4, <2>1, <2>3
<1>. QED
  BY <1>5 DEF Least

-----------------------------------------------------------------------------
(* The inductive invariant.  What is already listed comes before the       *)
(* token; what was there all along is listed or still ahead.               *)

PagingInv(s, keys) ==
  /\ s.token = NoToken => s.got = {} /\ s.page = {}
  /\ s.token # NoToken =>
       \A k \in s.got \cup s.page : Rank[k] < Rank[s.token]
  /\ \A k \in s.steady :
       /\ k \in keys \cap Found(s.regexes)
       /\ k \in s.got \cup s.page \cup From(s.token)

IInv ==
  /\ TypeOK
  /\ \A l \in Lister :
       lister[l].pc = "paging" => PagingInv(lister[l], params)
  /\ InOrder
  /\ SteadyAreListed

LEMMA PageSizes ==
  \A op \in Op, max \in MaxResults : PageSize(op, max) \in Int
BY SsmListingAssumption DEF PageSize

LEMMA RegexesAreRegexes ==
  /\ \A f \in ParameterFilter : RegexesOf(f) \subseteq Regex
  /\ \A filters \in FilterList : UNION {RegexesOf(f) : f \in filters} \subseteq Regex
  /\ \A p \in Path : Below(p) \in Regex /\ Child(p) \in Regex
  /\ All \in Regex
BY SsmListingAssumption DEF RegexesOf, Regex, Below, Child

LEMMA ListerFacts ==
  ASSUME TypeOK, NEW l \in Lister
  PROVE  /\ lister[l].pc = "paging" =>
              /\ lister[l].op \in Op
              /\ lister[l].regexes \subseteq Regex
              /\ lister[l].token \in Key \cup {NoToken}
         /\ lister[l].pc \in {"paging", "listed"} =>
              /\ lister[l].got \subseteq Key
              /\ lister[l].page \subseteq Key
              /\ lister[l].steady \subseteq Key
         /\ lister[l].pc \in {"idle", "paging", "listed"}
BY DEF TypeOK, Idle

(* A step of one listing, to an entry n that keeps the invariant.          *)
LEMMA StepInv ==
  ASSUME IInv, NEW l \in Lister, NEW n,
         lister' = [lister EXCEPT ![l] = n], params' = params, TypeOK',
         n.pc = "paging" => PagingInv(n, params),
         n.pc # "idle" => \A j \in n.got, k \in n.page : Rank[j] < Rank[k],
         n.pc = "listed" => n.steady \subseteq n.got \cup n.page
  PROVE  IInv'
<1>1. /\ lister'[l] = n
      /\ \A m \in Lister \ {l} : lister'[m] = lister[m]
  BY DEF IInv, TypeOK
<1>2. ASSUME NEW m \in Lister, lister'[m].pc = "paging"
      PROVE  PagingInv(lister'[m], params')
  BY <1>1, <1>2 DEF IInv
<1>3. InOrder'
  BY <1>1 DEF IInv, InOrder
<1>4. SteadyAreListed'
  BY <1>1 DEF IInv, SteadyAreListed
<1>. QED
  BY <1>2, <1>3, <1>4 DEF IInv

LEMMA BeginInv ==
  ASSUME IInv, NEW l \in Lister, NEW op \in Op, NEW regexes \in SUBSET Regex,
         Begin(l, op, regexes)
  PROVE  IInv'
<1>1. PICK steady : steady = params \cap Found(regexes)
  OBVIOUS
<1>2. PICK n : n = Paging(op, regexes, NoToken, {}, {}, steady)
  OBVIOUS
<1>3. params' = params /\ lister' = [lister EXCEPT ![l] = n]
  BY <1>1, <1>2 DEF Begin
<1>4. steady \subseteq Key
  BY <1>1 DEF IInv, TypeOK
<1>5. TypeOK'
  BY <1>2, <1>3, <1>4 DEF IInv, TypeOK, Paging
<1>6. n.pc = "paging" /\ n.token = NoToken /\ n.regexes = regexes
      /\ n.got = {} /\ n.page = {} /\ n.steady = steady
  BY <1>2 DEF Paging
<1>7. PagingInv(n, params)
  BY <1>1, <1>4, <1>6 DEF PagingInv, From
<1>. QED
  BY <1>3, <1>5, <1>6, <1>7, StepInv

(* How a page and its token cut what is ahead: all of the page comes       *)
(* before the token, all that is left out at or after it.                  *)
Cut(keys, page, token) ==
  /\ page \subseteq keys /\ keys \subseteq Key
  /\ token \in Key \cup {NoToken}
  /\ token = NoToken => keys = page
  /\ token # NoToken =>
       /\ token \in keys
       /\ \A k \in page : Rank[k] < Rank[token]
       /\ keys \ page \subseteq From(token)

(* Listing s after that page.                                              *)
Turned(s, page, token) ==
  IF token = NoToken
  THEN Listed(s.got \cup s.page, page, s.steady)
  ELSE Paging(s.op, s.regexes, token, s.got \cup s.page, page, s.steady)

LEMMA PageCut ==
  ASSUME IInv, NEW l \in Lister, NextPage(l)
  PROVE  /\ lister[l].pc = "paging" /\ params' = params
         /\ \E page, token :
              /\ Cut(Matches(lister[l].regexes, lister[l].token), page, token)
              /\ lister' = [lister EXCEPT ![l] = Turned(lister[l], page, token)]
<1>. DEFINE s == lister[l]
            keys == Matches(s.regexes, s.token)
<1>1. s.pc = "paging" /\ params' = params
  BY DEF NextPage
<1>2. PICK max \in MaxResults :
        LET page == FirstOf(keys, PageSize(s.op, max))
            token == NextToken(page, keys \ page)
        IN lister' = [lister EXCEPT ![l] = Turned(s, page, token)]
  BY DEF NextPage, Turned
<1>. DEFINE page == FirstOf(keys, PageSize(s.op, max))
            token == NextToken(page, keys \ page)
<1>3. keys \subseteq Key /\ page \subseteq keys
  BY DEF Matches, From, FirstOf
<1>4. PageSize(s.op, max) \in Int
  BY <1>1, ListerFacts, PageSizes DEF IInv
<1>5. \A k \in page, j \in keys \ page : Rank[k] < Rank[j]
  <2>. HIDE DEF keys
  <2>. QED
    BY <1>3, <1>4, FirstBeforeRest
<1>6. CASE keys \ page = {}
  <2>. HIDE DEF keys, page
  <2>1. token = NoToken /\ keys = page
    BY <1>3, <1>6 DEF NextToken
  <2>. HIDE DEF token
  <2>2. Cut(keys, page, token)
    BY <1>3, <2>1 DEF Cut
  <2>. QED
    BY <1>1, <1>2, <2>2 DEF keys, page, token
<1>7. CASE keys \ page # {}
  <2>. HIDE DEF keys, page
  <2>1. token = Least(keys \ page)
    BY <1>7 DEF NextToken
  <2>. HIDE DEF token
  <2>2. keys \ page \in SUBSET Key
    BY <1>3
  <2>3. /\ token \in keys \ page
        /\ \A j \in keys \ page : Rank[token] <= Rank[j]
    BY <1>7, <2>1, <2>2, LeastIsLeast
  <2>4. token \in Key /\ token # NoToken
    BY <1>3, <2>3, SsmListingAssumption
  <2>5. \A j \in keys \ page : Rank[j] >= Rank[token]
    BY <1>3, <2>3, <2>4, SsmListingAssumption
  <2>6. Cut(keys, page, token)
    BY <1>3, <1>5, <2>3, <2>4, <2>5 DEF Cut, From
  <2>. QED
    BY <1>1, <1>2, <2>6 DEF keys, page, token
<1>. QED
  BY <1>6, <1>7

(* A page and its token: all of the page comes before the token and after  *)
(* what was listed; what is ahead is in the page or from the token on.     *)
LEMMA NextPageInv ==
  ASSUME IInv, NEW l \in Lister, NextPage(l)
  PROVE  IInv'
<1>. DEFINE s == lister[l]
            keys == Matches(s.regexes, s.token)
            got == s.got \cup s.page
<1>1. s.pc = "paging" /\ params' = params
  BY PageCut
<1>2. PICK page, token :
        /\ Cut(keys, page, token)
        /\ lister' = [lister EXCEPT ![l] = Turned(s, page, token)]
  BY PageCut
<1>3. PICK n : n = Turned(s, page, token)
  OBVIOUS
<1>4. lister' = [lister EXCEPT ![l] = n]
  BY <1>2, <1>3
<1>5. /\ s.op \in Op /\ s.regexes \subseteq Regex
      /\ got \subseteq Key /\ s.steady \subseteq Key
      /\ s.token \in Key \cup {NoToken}
  BY <1>1, ListerFacts DEF IInv
<1>6. /\ n.pc = IF token = NoToken THEN "listed" ELSE "paging"
      /\ n.got = got /\ n.page = page /\ n.steady = s.steady
      /\ token # NoToken => n.token = token /\ n.regexes = s.regexes
  BY <1>3 DEF Turned, Listed, Paging
<1>7. TypeOK'
  <2>1. CASE token = NoToken
    BY <1>1, <1>2, <1>3, <1>4, <1>5, <2>1 DEF IInv, TypeOK, Turned, Listed, Cut
  <2>2. CASE token # NoToken
    BY <1>1, <1>2, <1>3, <1>4, <1>5, <2>2 DEF IInv, TypeOK, Turned, Paging, Cut
  <2>. QED
    BY <2>1, <2>2
<1>8. PagingInv(s, params)
  BY <1>1 DEF IInv
<1>9. ASSUME NEW j \in got, NEW k \in keys PROVE Rank[j] < Rank[k]
  <2>1. s.token # NoToken /\ Rank[j] < Rank[s.token]
    BY <1>8, <1>9 DEF PagingInv
  <2>2. Rank[k] >= Rank[s.token]
    BY <1>9, <2>1 DEF Matches, From
  <2>3. j \in Key /\ k \in Key /\ s.token \in Key
    BY <1>2, <1>5, <1>9, <2>1 DEF Cut
  <2>. QED
    BY <2>1, <2>2, <2>3, SsmListingAssumption
<1>10. \A k \in s.steady : /\ k \in params \cap Found(s.regexes)
                           /\ k \in got \cup keys
  BY <1>8 DEF PagingInv, Matches
<1>11. ASSUME token # NoToken PROVE PagingInv(n, params)
  <2>1. \A k \in got \cup page : Rank[k] < Rank[token]
    BY <1>2, <1>9, <1>11 DEF Cut
  <2>2. \A k \in s.steady : k \in got \cup page \cup From(token)
    BY <1>2, <1>10, <1>11 DEF Cut
  <2>. QED
    BY <1>6, <1>10, <1>11, <2>1, <2>2 DEF PagingInv
<1>12. \A j \in n.got, k \in n.page : Rank[j] < Rank[k]
  BY <1>2, <1>6, <1>9 DEF Cut
<1>13. token = NoToken => n.steady \subseteq n.got \cup n.page
  BY <1>2, <1>6, <1>10 DEF Cut
<1>. QED
  BY <1>1, <1>4, <1>6, <1>7, <1>11, <1>12, <1>13, StepInv

(* A listing is left as it is, forgotten, or robbed of keys that are no    *)
(* longer there.                                                           *)
LEMMA LeaveInv ==
  ASSUME IInv, NEW gone, params' \in SUBSET Key, params \ gone \subseteq params',
         lister' = [l \in Lister |-> lister'[l]],
         \A l \in Lister :
           \/ lister'[l] = Idle
           \/ lister[l].pc # "paging" /\ lister'[l] = lister[l]
           \/ /\ lister[l].pc = "paging"
              /\ lister'[l] =
                   Paging(lister[l].op, lister[l].regexes, lister[l].token,
                          lister[l].got, lister[l].page,
                          lister[l].steady \ gone)
  PROVE  IInv'
<1>1. Idle.pc = "idle"
  BY DEF Idle
<1>2. ASSUME NEW l \in Lister
      PROVE  /\ lister'[l] \in {Idle}
                  \cup [pc : {"paging"}, op : Op, regexes : SUBSET Regex,
                        token : Key \cup {NoToken}, got : SUBSET Key,
                        page : SUBSET Key, steady : SUBSET Key]
                  \cup [pc : {"listed"}, got : SUBSET Key, page : SUBSET Key,
                        steady : SUBSET Key]
             /\ lister'[l].pc = "paging" => PagingInv(lister'[l], params')
             /\ lister'[l].pc # "idle" =>
                  \A j \in lister'[l].got, k \in lister'[l].page :
                    Rank[j] < Rank[k]
             /\ lister'[l].pc = "listed" =>
                  lister'[l].steady \subseteq lister'[l].got \cup lister'[l].page
  <2>1. CASE lister'[l] = Idle
    BY <1>1, <2>1
  <2>2. CASE lister[l].pc # "paging" /\ lister'[l] = lister[l]
    BY <1>1, <2>2 DEF IInv, TypeOK, InOrder, SteadyAreListed
  <2>3. CASE /\ lister[l].pc = "paging"
             /\ lister'[l] =
                  Paging(lister[l].op, lister[l].regexes, lister[l].token,
                         lister[l].got, lister[l].page, lister[l].steady \ gone)
    <3>1. PICK n : n = lister'[l]
      OBVIOUS
    <3>2. /\ n.pc = "paging"
          /\ n.regexes = lister[l].regexes /\ n.token = lister[l].token
          /\ n.got = lister[l].got /\ n.page = lister[l].page
          /\ n.steady = lister[l].steady \ gone
      BY <2>3, <3>1 DEF Paging
    <3>3. n \in [pc : {"paging"}, op : Op, regexes : SUBSET Regex,
                 token : Key \cup {NoToken}, got : SUBSET Key,
                 page : SUBSET Key, steady : SUBSET Key]
      BY <2>3, <3>1, ListerFacts DEF IInv, Paging
    <3>4. PagingInv(lister[l], params)
      BY <2>3 DEF IInv
    <3>5. PagingInv(n, params')
      BY <3>2, <3>4 DEF PagingInv
    <3>6. \A j \in n.got, k \in n.page : Rank[j] < Rank[k]
      BY <2>3, <3>2 DEF IInv, InOrder
    <3>. QED
      BY <3>1, <3>2, <3>3, <3>5, <3>6
  <2>. QED
    BY <2>1, <2>2, <2>3
<1>3. TypeOK'
  BY <1>2 DEF TypeOK
<1>4. InOrder' /\ SteadyAreListed'
  BY <1>2 DEF InOrder, SteadyAreListed
<1>. QED
  BY <1>2, <1>3, <1>4 DEF IInv

(* A deletion takes the keys from what is steady, and leaves the rest.     *)
LEMMA DeleteRobs ==
  ASSUME IInv, NEW keys \in SUBSET Key, Delete(keys), NEW l \in Lister
  PROVE  \/ lister[l].pc # "paging" /\ lister'[l] = lister[l]
         \/ /\ lister[l].pc = "paging"
            /\ lister'[l] =
                 Paging(lister[l].op, lister[l].regexes, lister[l].token,
                        lister[l].got, lister[l].page, lister[l].steady \ keys)
<1>1. CASE lister[l].pc # "paging"
  BY <1>1 DEF Delete, Without
<1>2. CASE lister[l].pc = "paging"
  <2>1. lister'[l] = [lister[l] EXCEPT !.steady = lister[l].steady \ keys]
    BY <1>2 DEF Delete, Without
  <2>2. lister[l] \in [pc : {"paging"}, op : Op, regexes : SUBSET Regex,
           token : Key \cup {NoToken}, got : SUBSET Key, page : SUBSET Key,
           steady : SUBSET Key]
    BY <1>2 DEF IInv, TypeOK, Idle
  <2>. QED
    BY <1>2, <2>1, <2>2 DEF Paging
<1>. QED
  BY <1>1, <1>2

-----------------------------------------------------------------------------
LEMMA NextInv == IInv /\ [Next]_vars => IInv'
<1>. SUFFICES ASSUME IInv, [Next]_vars PROVE IInv'
  OBVIOUS
<1>1. params \in SUBSET Key /\ lister = [l \in Lister |-> lister[l]]
  BY DEF IInv, TypeOK
<1>2. ASSUME NEW l \in Lister, NEW filters \in FilterList,
             DescribeParameters(l, filters)
      PROVE  IInv'
  BY <1>2, BeginInv, RegexesAreRegexes DEF DescribeParameters, Op
<1>3. ASSUME NEW l \in Lister, NEW p \in Path, NEW recursive \in BOOLEAN,
             GetParametersByPath(l, p, recursive)
      PROVE  IInv'
  <2>1. {IF recursive THEN Below(p) ELSE Child(p)} \in SUBSET Regex
    BY RegexesAreRegexes
  <2>. QED
    BY <1>3, <2>1, BeginInv DEF GetParametersByPath, Op
<1>4. ASSUME NEW l \in Lister, GetAllParameters(l) PROVE IInv'
  BY <1>4, BeginInv, RegexesAreRegexes DEF GetAllParameters, Op
<1>5. ASSUME NEW l \in Lister, NextPage(l) PROVE IInv'
  BY <1>5, NextPageInv
<1>6. ASSUME NEW l \in Lister, GiveUp(l) \/ Return(l) PROVE IInv'
  <2>1. Idle.pc = "idle" /\ lister' = [lister EXCEPT ![l] = Idle]
        /\ params' = params
    BY <1>6 DEF GiveUp, Return, Idle
  <2>2. TypeOK'
    BY <2>1 DEF IInv, TypeOK
  <2>. QED
    BY <2>1, <2>2, StepInv
<1>7. ASSUME NEW k \in Key, Put(k) PROVE IInv'
  <2>1. params \subseteq params' /\ params' \in SUBSET Key /\ lister' = lister
    BY <1>1, <1>7 DEF Put
  <2>2. TypeOK'
    BY <2>1 DEF IInv, TypeOK
  <2>3. ASSUME NEW l \in Lister, lister[l].pc = "paging"
        PROVE  PagingInv(lister[l], params')
    <3>1. PagingInv(lister[l], params)
      BY <2>3 DEF IInv
    <3>. QED
      BY <2>1, <3>1 DEF PagingInv
  <2>4. InOrder' /\ SteadyAreListed'
    BY <2>1 DEF IInv, InOrder, SteadyAreListed
  <2>. QED
    BY <2>1, <2>2, <2>3, <2>4 DEF IInv
<1>8. ASSUME NEW keys \in SUBSET Key, Delete(keys) PROVE IInv'
  <2>1. params' = params \ keys
    BY <1>8 DEF Delete
  <2>2. lister' = [l \in Lister |-> lister'[l]]
    BY <1>8 DEF Delete, Without
  <2>. QED
    BY <1>1, <1>8, <2>1, <2>2, DeleteRobs, LeaveInv
<1>9. ASSUME Restart PROVE IInv'
  <2>1. params' = params /\ lister' = [l \in Lister |-> lister'[l]]
    BY <1>9 DEF Restart
  <2>2. ASSUME NEW l \in Lister PROVE lister'[l] = Idle \/ lister'[l] = lister[l]
    BY <1>9 DEF Restart
  <2>3. TypeOK'
    BY <2>1, <2>2 DEF IInv, TypeOK
  <2>4. Idle.pc = "idle"
    BY DEF Idle
  <2>5. InOrder' /\ SteadyAreListed'
    BY <2>2, <2>4 DEF IInv, InOrder, SteadyAreListed
  <2>6. ASSUME NEW l \in Lister, lister'[l].pc = "paging"
        PROVE  PagingInv(lister'[l], params')
    BY <2>1, <2>2, <2>4, <2>6 DEF IInv
  <2>. QED
    BY <2>3, <2>5, <2>6 DEF IInv
<1>10. CASE UNCHANGED vars
  BY <1>10 DEF vars, IInv, TypeOK, InOrder, SteadyAreListed
<1>. QED
  BY <1>2, <1>3, <1>4, <1>5, <1>6, <1>7, <1>8, <1>9, <1>10 DEF Next

LEMMA Invariance == Spec => []IInv
<1>1. Init => IInv
  BY DEF Init, Idle, IInv, TypeOK, InOrder, SteadyAreListed
<1>. QED
  BY <1>1, NextInv, PTL DEF Spec

-----------------------------------------------------------------------------
(* The refinement.  In what follows scan is the state of Scan.             *)

LEMMA ScannedIs ==
  /\ \A s : s.pc = "idle" => Scanned(s) = [pc |-> "idle"]
  /\ \A s : s.pc = "paging" =>
       Scanned(s) = Scan!Open("bytes", Found(s.regexes), At(s.token),
                              s.got \cup s.page, s.steady)
  /\ \A s : s.pc = "listed" =>
       Scanned(s) =
         [pc |-> "done", seen |-> s.got \cup s.page, steady |-> s.steady]
BY DEF Scanned, Scan!Open

LEMMA OpenIs ==
  \A about, at, seen, steady :
    LET open == Scan!Open("bytes", about, at, seen, steady)
    IN /\ open.pc = "open" /\ open.order = "bytes" /\ open.about = about
       /\ open.at = at /\ open.seen = seen /\ open.steady = steady
BY DEF Scan!Open

(* A step of one listing is a step of its scan.                            *)
LEMMA ScanMoves ==
  ASSUME TypeOK, NEW l \in Lister, NEW n, lister' = [lister EXCEPT ![l] = n]
  PROVE  [m \in Lister |-> Scanned(lister[m])]'
           = [[m \in Lister |-> Scanned(lister[m])] EXCEPT ![l] = Scanned(n)]
<1>1. /\ lister'[l] = n
      /\ \A m \in Lister \ {l} : lister'[m] = lister[m]
  BY DEF TypeOK
<1>2. PICK scan : scan = [m \in Lister |-> Scanned(lister[m])]
  OBVIOUS
<1>3. \A m \in Lister :
        Scanned(lister'[m]) = [scan EXCEPT ![l] = Scanned(n)][m]
  BY <1>1, <1>2
<1>4. [m \in Lister |-> Scanned(lister'[m])] = [scan EXCEPT ![l] = Scanned(n)]
  BY <1>2, <1>3
<1>. QED
  BY <1>2, <1>4

LEMMA InitScan == Init => Scan!Init
<1>. SUFFICES ASSUME Init PROVE Scan!Init
  OBVIOUS
<1>1. ASSUME NEW l \in Lister PROVE Scanned(lister[l]) = [pc |-> "idle"]
  BY ScannedIs DEF Init, Idle
<1>. QED
  BY <1>1 DEF Scan!Init, Scan!Idle, Init

LEMMA BeginScan ==
  ASSUME IInv, NEW l \in Lister, NEW op \in Op, NEW regexes \in SUBSET Regex,
         Begin(l, op, regexes)
  PROVE  Scan!Begin(l)
<1>. DEFINE about == Found(regexes)
            steady == params \cap about
            n == Paging(op, regexes, NoToken, {}, {}, steady)
<1>1. /\ lister[l].pc = "idle"
      /\ lister' = [lister EXCEPT ![l] = n]
      /\ params' = params
  BY DEF Begin, Idle
<1>2. Scanned(lister[l]) = [pc |-> "idle"]
  BY <1>1, ScannedIs
<1>3. Scanned(n) = Scan!Open("bytes", about, 0, {}, steady)
  <2>1. /\ n.pc = "paging" /\ n.regexes = regexes /\ n.token = NoToken
        /\ n.got = {} /\ n.page = {} /\ n.steady = steady
    BY DEF Paging
  <2>. HIDE DEF n
  <2>. QED
    BY <2>1, ScannedIs DEF At
<1>4. Scan!After("bytes", steady, 0) = steady
  BY SsmListingAssumption DEF Scan!After, IInv, TypeOK
<1>5. about \in SUBSET Key
  BY SsmListingAssumption DEF Found
<1>6. 0 \in {At(token) : token \in Key \cup {NoToken}}
  BY DEF At
<1>7. [m \in Lister |-> Scanned(lister[m])]'
        = [[m \in Lister |-> Scanned(lister[m])] EXCEPT ![l] = Scanned(n)]
  <2>. HIDE DEF n
  <2>. QED
    BY <1>1, ScanMoves DEF IInv
<1>8. [m \in Lister |-> Scanned(lister[m])][l] = Scan!Idle
  BY <1>2 DEF Scan!Idle
<1>. HIDE DEF n, about, steady
<1>9. [m \in Lister |-> Scanned(lister[m])]'
        = [[m \in Lister |-> Scanned(lister[m])] EXCEPT ![l] =
             Scan!Open("bytes", about, 0, {}, Scan!After("bytes", steady, 0))]
  BY <1>3, <1>4, <1>7
<1>. QED
  BY <1>1, <1>5, <1>6, <1>8, <1>9 DEF Scan!Begin, steady

(* What a page leaves out comes at or after its token, and nothing of it   *)
(* comes before.                                                           *)
LEMMA NextPageScan ==
  ASSUME IInv, NEW l \in Lister, NextPage(l)
  PROVE  \/ Scan!LastPage(l)
         \/ \E q \in {At(token) : token \in Key \cup {NoToken}} :
              Scan!NextPage(l, q)
<1>. DEFINE s == lister[l]
            keys == Matches(s.regexes, s.token)
            got == s.got \cup s.page
<1>1. s.pc = "paging" /\ params' = params
  BY PageCut
<1>2. PICK page, token :
        /\ Cut(keys, page, token)
        /\ lister' = [lister EXCEPT ![l] = Turned(s, page, token)]
  BY PageCut
<1>3. PICK n : n = Turned(s, page, token)
  OBVIOUS
<1>4. PICK scan : scan = [m \in Lister |-> Scanned(lister[m])]
  OBVIOUS
<1>5. scan[l] = Scan!Open("bytes", Found(s.regexes), At(s.token), got, s.steady)
  BY <1>1, <1>4, ScannedIs
<1>6. [m \in Lister |-> Scanned(lister[m])]' = [scan EXCEPT ![l] = Scanned(n)]
  BY <1>2, <1>3, <1>4, ScanMoves DEF IInv
<1>7. keys = {k \in params \cap Found(s.regexes) : Rank[k] >= At(s.token)}
  <2>1. s.token \in Key \cup {NoToken}
    BY <1>1, ListerFacts DEF IInv
  <2>2. params \subseteq Key
    BY DEF IInv, TypeOK
  <2>. QED
    BY <2>1, <2>2, SsmListingAssumption DEF Matches, From, At
<1>8. Scan!Rest(l) = keys
  BY <1>4, <1>5, <1>7, OpenIs DEF Scan!Rest, Scan!After
<1>9. CASE token = NoToken
  <2>1. n.pc = "listed" /\ n.got = got /\ n.page = page /\ n.steady = s.steady
    BY <1>3, <1>9 DEF Turned, Listed
  <2>2. Scanned(n) =
          [pc |-> "done", seen |-> got \cup keys, steady |-> s.steady]
    BY <1>2, <1>9, <2>1, ScannedIs DEF Cut
  <2>. HIDE DEF s, keys, got
  <2>3. scan[l].pc = "open" /\ scan[l].seen = got /\ scan[l].steady = s.steady
    BY <1>5, OpenIs
  <2>4. [m \in Lister |-> Scanned(lister[m])]'
          = [scan EXCEPT ![l] = Scan!Done(scan[l].seen \cup Scan!Rest(l),
                                          scan[l].steady)]
    BY <1>6, <1>8, <2>2, <2>3 DEF Scan!Done
  <2>5. Scan!LastPage(l)
    BY <1>1, <1>4, <2>3, <2>4 DEF Scan!LastPage
  <2>. QED
    BY <2>5
<1>10. CASE token # NoToken
  <2>1. /\ n.pc = "paging" /\ n.regexes = s.regexes /\ n.token = token
        /\ n.got = got /\ n.page = page /\ n.steady = s.steady
    BY <1>3, <1>10 DEF Turned, Paging
  <2>2. At(token) = Rank[token] /\ token \in Key
    BY <1>2, <1>10 DEF At, Cut
  <2>3. Scanned(n) =
          Scan!Open("bytes", Found(s.regexes), At(token), got \cup page, s.steady)
    BY <2>1, ScannedIs
  <2>4. page = {k \in keys : Rank[k] < At(token)}
    <3>1. \A k \in keys \ page : Rank[k] >= Rank[token]
      BY <1>2, <1>10 DEF From, Cut
    <3>2. \A k \in keys : Rank[k] \in Nat
      BY <1>2, SsmListingAssumption DEF Cut
    <3>3. Rank[token] \in Nat
      BY <2>2, SsmListingAssumption
    <3>. QED
      BY <1>2, <1>10, <2>2, <3>1, <3>2, <3>3 DEF Cut
  <2>5. At(token) >= At(s.token)
    BY <1>2, <1>7, <1>10, <2>2 DEF Cut
  <2>. HIDE DEF s, keys, got
  <2>6. PICK place : place = At(token)
    OBVIOUS
  <2>7. PICK open : open = scan[l]
    OBVIOUS
  <2>8. [[open EXCEPT !.at = place] EXCEPT !.seen = open.seen \cup page]
          = Scanned(n)
    <3>1. open = Scan!Open("bytes", Found(s.regexes), At(s.token), got, s.steady)
      BY <1>5, <2>7
    <3>2. [open EXCEPT !.at = place] =
            Scan!Open("bytes", Found(s.regexes), place, got, s.steady)
      BY <3>1 DEF Scan!Open
    <3>3. PICK mid : mid = [open EXCEPT !.at = place]
      OBVIOUS
    <3>4. PICK now : now = open.seen \cup page
      OBVIOUS
    <3>5. now = got \cup page
      BY <3>1, <3>4, OpenIs
    <3>6. PICK about, at, seen, steady :
            /\ mid = Scan!Open("bytes", about, at, seen, steady)
            /\ Scanned(n) = Scan!Open("bytes", about, at, now, steady)
      BY <2>3, <2>6, <3>2, <3>3, <3>5
    <3>7. [mid EXCEPT !.seen = now] = Scanned(n)
      BY <3>6 DEF Scan!Open
    <3>. QED
      BY <3>3, <3>4, <3>7
  <2>9. [open EXCEPT !.at = place, !.seen = open.seen \cup page] = Scanned(n)
    BY <2>8
  <2>10. open.order = "bytes" /\ open.pc = "open" /\ open.at = At(s.token)
    BY <1>5, <2>7, OpenIs
  <2>11. {k \in Scan!Rest(l) : Rank[k] < place} = page
    BY <1>8, <2>4, <2>6
  <2>12. [m \in Lister |-> Scanned(lister[m])]'
           = [scan EXCEPT ![l].at = place, ![l].seen = scan[l].seen \cup page]
    BY <1>4, <1>6, <2>7, <2>9
  <2>13. Scan!NextPage(l, place)
    <3>1. scan[l].pc = "open" /\ place >= scan[l].at
      BY <2>5, <2>6, <2>7, <2>10
    <3>2. {k \in Scan!Rest(l) : [o \in {"bytes"} |-> Rank][scan[l].order][k] < place}
            = page
      BY <2>7, <2>10, <2>11
    <3>3. [m \in Lister |-> Scanned(lister[m])]'
            = [scan EXCEPT ![l].at = place,
                 ![l].seen = @ \cup {k \in Scan!Rest(l) :
                   [o \in {"bytes"} |-> Rank][scan[l].order][k] < place}]
      BY <2>12, <3>2
    <3>. QED
      BY <1>1, <1>4, <3>1, <3>3 DEF Scan!NextPage
  <2>. QED
    BY <2>2, <2>6, <2>13
<1>. QED
  BY <1>9, <1>10

(* Listings that are forgotten are closed scans.                           *)
LEMMA CloseScan ==
  ASSUME NEW S \in SUBSET Lister, params' = params,
         lister' = [l \in Lister |-> IF l \in S THEN Idle ELSE lister[l]]
  PROVE  Scan!Close(S)
<1>1. Scanned(Idle) = [pc |-> "idle"]
  BY ScannedIs DEF Idle
<1>. QED
  BY <1>1 DEF Scan!Close, Scan!Idle

(* Whatever changes the bucket robs the scans of what is gone.             *)
LEMMA ChangeScan ==
  ASSUME IInv, NEW gone, params' \in SUBSET Key, params \ gone \subseteq params',
         params' \cap params \cap gone = {},
         lister' = [l \in Lister |-> lister'[l]],
         \A l \in Lister :
           \/ lister[l].pc # "paging" /\ lister'[l] = lister[l]
           \/ /\ lister[l].pc = "paging"
              /\ lister'[l] =
                   Paging(lister[l].op, lister[l].regexes, lister[l].token,
                          lister[l].got, lister[l].page,
                          lister[l].steady \ gone)
  PROVE  Scan!Change
<1>. DEFINE scan == [m \in Lister |-> Scanned(lister[m])]
<1>1. ASSUME NEW l \in Lister
      PROVE  Scanned(lister'[l]) =
               IF scan[l].pc = "open"
               THEN [scan[l] EXCEPT !.steady = scan[l].steady \cap params']
               ELSE scan[l]
  <2>1. CASE lister[l].pc # "paging"
    <3>1. lister[l].pc = "idle" \/ lister[l].pc = "listed"
      BY <2>1, ListerFacts DEF IInv
    <3>2. scan[l].pc # "open"
      BY <3>1, ScannedIs
    <3>. QED
      BY <2>1, <3>2
  <2>2. CASE lister[l].pc = "paging"
    <3>1. PICK n : n = lister'[l]
      OBVIOUS
    <3>2. /\ n.pc = "paging"
          /\ n.regexes = lister[l].regexes /\ n.token = lister[l].token
          /\ n.got = lister[l].got /\ n.page = lister[l].page
          /\ n.steady = lister[l].steady \ gone
      BY <2>2, <3>1 DEF Paging
    <3>3. lister[l].steady \subseteq params
      BY <2>2 DEF IInv, PagingInv
    <3>4. lister[l].steady \ gone = lister[l].steady \cap params'
      BY <3>3
    <3>5. scan[l] =
            Scan!Open("bytes", Found(lister[l].regexes), At(lister[l].token),
                      lister[l].got \cup lister[l].page, lister[l].steady)
      BY <2>2, ScannedIs
    <3>6. Scanned(n) =
            Scan!Open("bytes", Found(lister[l].regexes), At(lister[l].token),
                      lister[l].got \cup lister[l].page,
                      lister[l].steady \cap params')
      BY <3>2, <3>4, ScannedIs
    <3>7. [scan[l] EXCEPT !.steady = scan[l].steady \cap params'] = Scanned(n)
      <4>. HIDE DEF scan
      <4>1. PICK open : open = scan[l]
        OBVIOUS
      <4>2. PICK now : now = open.steady \cap params'
        OBVIOUS
      <4>3. now = lister[l].steady \cap params'
        BY <3>5, <4>1, <4>2, OpenIs
      <4>4. Scanned(n) =
              Scan!Open("bytes", Found(lister[l].regexes), At(lister[l].token),
                        lister[l].got \cup lister[l].page, now)
        BY <3>6, <4>3
      <4>5. PICK about, at, seen, steady :
              /\ open = Scan!Open("bytes", about, at, seen, steady)
              /\ Scanned(n) = Scan!Open("bytes", about, at, seen, now)
        BY <3>5, <4>1, <4>4
      <4>6. [open EXCEPT !.steady = now] = Scanned(n)
        BY <4>5 DEF Scan!Open
      <4>. QED
        BY <4>1, <4>2, <4>6
    <3>8. scan[l].pc = "open"
      BY <3>5, OpenIs
    <3>. HIDE DEF scan
    <3>. QED
      BY <3>1, <3>7, <3>8
  <2>. QED
    BY <2>1, <2>2
<1>. QED
  BY <1>1 DEF Scan!Change

LEMMA StepScan == IInv /\ [Next]_vars => [Scan!Next]_(Scan!vars)
<1>. SUFFICES ASSUME IInv, [Next]_vars PROVE [Scan!Next]_(Scan!vars)
  OBVIOUS
<1>1. ASSUME NEW l \in Lister, NEW filters \in FilterList,
             DescribeParameters(l, filters)
      PROVE  Scan!Begin(l)
  BY <1>1, BeginScan, RegexesAreRegexes DEF DescribeParameters, Op
<1>2. ASSUME NEW l \in Lister, NEW p \in Path, NEW recursive \in BOOLEAN,
             GetParametersByPath(l, p, recursive)
      PROVE  Scan!Begin(l)
  <2>1. {IF recursive THEN Below(p) ELSE Child(p)} \in SUBSET Regex
    BY RegexesAreRegexes
  <2>. QED
    BY <1>2, <2>1, BeginScan DEF GetParametersByPath, Op
<1>3. ASSUME NEW l \in Lister, GetAllParameters(l) PROVE Scan!Begin(l)
  BY <1>3, BeginScan, RegexesAreRegexes DEF GetAllParameters, Op
<1>4. ASSUME NEW l \in Lister, GiveUp(l) \/ Return(l) PROVE Scan!Close({l})
  <2>1. lister' = [m \in Lister |-> IF m \in {l} THEN Idle ELSE lister[m]]
    BY <1>4 DEF GiveUp, Return, IInv, TypeOK
  <2>2. params' = params
    BY <1>4 DEF GiveUp, Return
  <2>. QED
    BY <2>1, <2>2, CloseScan
<1>5. ASSUME Restart
      PROVE  \E S \in SUBSET Lister : Scan!Close(S)
  <2>. DEFINE S == {l \in Lister : lister[l].pc = "paging"
                                     /\ lister[l].op = "export"}
  <2>1. lister' = [l \in Lister |-> IF l \in S THEN Idle ELSE lister[l]]
    BY <1>5 DEF Restart
  <2>2. params' = params /\ S \in SUBSET Lister
    BY <1>5 DEF Restart
  <2>. QED
    BY <2>1, <2>2, CloseScan
<1>6. ASSUME NEW k \in Key, Put(k) PROVE Scan!Change
  <2>1. /\ params' \in SUBSET Key /\ params \ {} \subseteq params'
        /\ lister' = lister
    BY <1>6 DEF Put, IInv, TypeOK
  <2>2. lister' = [l \in Lister |-> lister'[l]]
    BY <2>1 DEF IInv, TypeOK
  <2>3. ASSUME NEW l \in Lister, lister[l].pc = "paging"
        PROVE  lister[l] =
                 Paging(lister[l].op, lister[l].regexes, lister[l].token,
                        lister[l].got, lister[l].page, lister[l].steady \ {})
    <3>1. lister[l] \in [pc : {"paging"}, op : Op, regexes : SUBSET Regex,
             token : Key \cup {NoToken}, got : SUBSET Key, page : SUBSET Key,
             steady : SUBSET Key]
      BY <2>3 DEF IInv, TypeOK, Idle
    <3>2. lister[l].steady \ {} = lister[l].steady
      OBVIOUS
    <3>. QED
      BY <3>1, <3>2 DEF Paging
  <2>. QED
    BY <2>1, <2>2, <2>3, ChangeScan
<1>7. ASSUME NEW keys \in SUBSET Key, Delete(keys) PROVE Scan!Change
  <2>1. params' = params \ keys /\ params' \in SUBSET Key
    BY <1>7 DEF Delete, IInv, TypeOK
  <2>2. lister' = [l \in Lister |-> lister'[l]]
    BY <1>7 DEF Delete, Without
  <2>. QED
    BY <1>7, <2>1, <2>2, DeleteRobs, ChangeScan
<1>8. CASE UNCHANGED vars
  BY <1>8 DEF vars, Scan!vars
<1>9. ASSUME NEW l \in Lister, NextPage(l)
      PROVE  \/ Scan!LastPage(l)
             \/ \E q \in {At(token) : token \in Key \cup {NoToken}} :
                  Scan!NextPage(l, q)
  BY <1>9, NextPageScan
<1>. QED
  BY <1>1, <1>2, <1>3, <1>4, <1>5, <1>6, <1>7, <1>8, <1>9 DEF Next, Scan!Next

-----------------------------------------------------------------------------
(* TypeOK, for every set of keys and every number of listings.             *)
THEOREM TypeCorrect == Spec => []TypeOK
<1>1. IInv => TypeOK
  BY DEF IInv
<1>. QED
  BY <1>1, Invariance, PTL

(* The pages of findParametersByKey come in the order of the keys, each    *)
(* after all the pages before it: a listing has no key twice.              *)
THEOREM PagesGoOn == Spec => []InOrder
<1>1. IInv => InOrder
  BY DEF IInv
<1>. QED
  BY <1>1, Invariance, PTL

(* A listing that came to its end has every key it is about that was there *)
(* all along, whatever was put and deleted between its pages.              *)
THEOREM SteadyKeysAreListed == Spec => []SteadyAreListed
<1>1. IInv => SteadyAreListed
  BY DEF IInv
<1>. QED
  BY <1>1, Invariance, PTL

(* The listings of internal/ssm are scans of the bucket: what Scan allows, *)
(* with tokens as places, is all they do.                                  *)
THEOREM ImplementsScan == Spec => IsAScan
<1>. QED
  BY InitScan, StepScan, Invariance, PTL DEF Spec, IsAScan, Scan!Spec
=============================================================================
