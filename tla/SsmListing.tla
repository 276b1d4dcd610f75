----------------------------- MODULE SsmListing -----------------------------
(***************************************************************************)
(* The listings of internal/ssm: DescribeParameters, GetParametersByPath   *)
(* and the GetAllParameters of an export.  Each goes through the keys in   *)
(* their byte order, one page in one transaction, and the token of a page  *)
(* is the key the next one begins with.  The server keeps nothing between  *)
(* two pages, and parameters come and go.                                  *)
(*                                                                         *)
(* A stored parameter is its key here; Ssm models what is stored under it. *)
(* steady is a history field: the keys a listing is about that have been   *)
(* there since it began.                                                   *)
(*                                                                         *)
(* Definitions whose name starts with Broken are faulty variants of the    *)
(* definition after them, used by no specification: each shows that a      *)
(* property would fail if the code had that fault.                         *)
(***************************************************************************)
EXTENDS Integers, FiniteSets

CONSTANTS
  Key, Rank,   \* the keys of the bucket and their places in byte order
  Path,        \* the names and paths requests ask for, "/" in front
  Matching,    \* the keys each regular expression finds
  PageLimit,   \* the default and greatest page of each operation
  MaxResults,  \* the MaxResults arguments
  FilterList,  \* the ParameterFilters of DescribeParameters
  Lister,      \* clients that list, and exports
  NoToken

Op == {"describe", "path", "export"}

(* The regular expressions of types.go: "^p$", "^p/.*", "^p/[^/]+$".  The  *)
(* path is put in as it is, so that a "." in it stands for any character.  *)
Equals(p) == [form |-> "equals", path |-> p]
Below(p) == [form |-> "below", path |-> p]
Child(p) == [form |-> "child", path |-> p]
All == [form |-> "all"]

Regex == [form : {"equals", "below", "child"}, path : Path] \cup {All}

ParameterFilter ==
  [key : {"Name", "Path", "Other"},
   option : {"Equals", "BeginsWith", "Recursive", "OneLevel"},
   values : SUBSET Path]

ASSUME SsmListingAssumption ==
  /\ IsFiniteSet(Key)
  /\ Rank \in [Key -> Nat]
  /\ \A j, k \in Key : Rank[j] = Rank[k] => j = k
  /\ Matching \in [Regex -> SUBSET Key]
  /\ Matching[All] = Key
  /\ PageLimit \in [Op -> Nat \ {0}]
  /\ MaxResults \subseteq Int
  /\ FilterList \subseteq SUBSET ParameterFilter
  /\ NoToken \notin Key

-----------------------------------------------------------------------------
VARIABLES
  params,   \* the keys of the ssm bucket
  lister    \* how far each listing is

vars == <<params, lister>>

Found(regexes) == UNION {Matching[r] : r \in regexes}

Idle == [pc |-> "idle"]

(* got holds the keys of the pages before the last, page those of the last.*)
Paging(op, regexes, token, got, page, steady) ==
  [pc |-> "paging", op |-> op, regexes |-> regexes, token |-> token,
   got |-> got, page |-> page, steady |-> steady]
Listed(got, page, steady) ==
  [pc |-> "listed", got |-> got, page |-> page, steady |-> steady]

TypeOK ==
  /\ params \in SUBSET Key
  /\ lister \in [Lister ->
       {Idle}
         \cup [pc : {"paging"}, op : Op, regexes : SUBSET Regex,
               token : Key \cup {NoToken}, got : SUBSET Key, page : SUBSET Key,
               steady : SUBSET Key]
         \cup [pc : {"listed"}, got : SUBSET Key, page : SUBSET Key,
               steady : SUBSET Key]]

Init ==
  /\ params = {}
  /\ lister = [l \in Lister |-> Idle]

-----------------------------------------------------------------------------
(* What the requests make of their arguments.                              *)

ValidFilter(f) ==
  /\ f.key = "Path" => f.option \in {"OneLevel", "Recursive"}
  /\ f.key = "Name" => f.option \in {"Equals", "BeginsWith"}

(* A filter on anything else is accepted and finds nothing.                *)
RegexesOf(f) ==
  {r \in Regex :
     \E p \in f.values :
       \/ f.key = "Name" /\ f.option = "Equals" /\ r = Equals(p)
       \/ f.key = "Name" /\ f.option = "BeginsWith" /\ r = Below(p)
       \/ f.key = "Path" /\ f.option = "Recursive" /\ r = Below(p)
       \/ f.key = "Path" /\ f.option = "OneLevel" /\ r = Child(p)}

PageSize(op, max) ==
  IF op # "export" /\ max > 0 /\ max < PageLimit[op] THEN max ELSE PageLimit[op]

Begin(l, op, regexes) ==
  /\ lister[l] = Idle
  /\ lister' = [lister EXCEPT ![l] =
       Paging(op, regexes, NoToken, {}, {}, params \cap Found(regexes))]
  /\ UNCHANGED params

DescribeParameters(l, filters) ==
  /\ \A f \in filters : ValidFilter(f)
  /\ Begin(l, "describe", UNION {RegexesOf(f) : f \in filters})

GetParametersByPath(l, p, recursive) ==
  Begin(l, "path", {IF recursive THEN Below(p) ELSE Child(p)})

GetAllParameters(l) == Begin(l, "export", {All})

-----------------------------------------------------------------------------
(* findParametersByKey: the first keys that match, from the token on.      *)

BrokenFrom(token) ==   \* leaves out the key the token names
  {k \in Key : token # NoToken => Rank[k] > Rank[token]}

From(token) == {k \in Key : token # NoToken => Rank[k] >= Rank[token]}

Matches(regexes, token) == params \cap Found(regexes) \cap From(token)

FirstOf(keys, n) ==
  {k \in keys : Cardinality({j \in keys : Rank[j] < Rank[k]}) < n}

Least(keys) == CHOOSE k \in keys : \A j \in keys : Rank[k] <= Rank[j]

BrokenNextToken(page, rest) ==   \* the last key of this page
  IF rest = {} THEN NoToken
  ELSE CHOOSE k \in page : \A j \in page : Rank[j] <= Rank[k]

NextToken(page, rest) == IF rest = {} THEN NoToken ELSE Least(rest)

(* One request, or one turn of the loop of GetAllParameters.               *)
NextPage(l) ==
  /\ lister[l].pc = "paging"
  /\ \E max \in MaxResults :
       LET s == lister[l]
           keys == Matches(s.regexes, s.token)
           page == FirstOf(keys, PageSize(s.op, max))
           token == NextToken(page, keys \ page)
           got == s.got \cup s.page
       IN lister' = [lister EXCEPT ![l] =
            IF token = NoToken
            THEN Listed(got, page, s.steady)
            ELSE Paging(s.op, s.regexes, token, got, page, s.steady)]
  /\ UNCHANGED params

(* A client need not ask for the next page.                                *)
GiveUp(l) ==
  /\ lister[l].pc = "paging"
  /\ lister[l].op # "export"
  /\ lister' = [lister EXCEPT ![l] = Idle]
  /\ UNCHANGED params

Return(l) ==
  /\ lister[l].pc = "listed"
  /\ lister' = [lister EXCEPT ![l] = Idle]
  /\ UNCHANGED params

-----------------------------------------------------------------------------
(* What the other requests do to the bucket.                               *)

BrokenPut(k) ==   \* a parameter without a name
  /\ params' = params \cup {NoToken}
  /\ UNCHANGED lister

Put(k) ==
  /\ params' = params \cup {k}
  /\ UNCHANGED lister

Without(keys) ==
  [l \in Lister |->
    IF lister[l].pc = "paging" THEN [lister[l] EXCEPT !.steady = @ \ keys]
                               ELSE lister[l]]

Delete(keys) ==
  /\ params' = params \ keys
  /\ lister' = Without(keys)

(* The process is started again: exports are gone, tokens are good.        *)
Restart ==
  /\ lister' = [l \in Lister |->
       IF lister[l].pc = "paging" /\ lister[l].op = "export"
       THEN Idle ELSE lister[l]]
  /\ UNCHANGED params

Next ==
  \/ \E l \in Lister :
       \/ \E filters \in FilterList : DescribeParameters(l, filters)
       \/ \E p \in Path, recursive \in BOOLEAN :
            GetParametersByPath(l, p, recursive)
       \/ GetAllParameters(l)
       \/ NextPage(l)
       \/ GiveUp(l)
       \/ Return(l)
  \/ \E k \in Key : Put(k)
  \/ \E k \in Key : Delete({k})
  \/ Delete(Key)
  \/ Restart

Spec == Init /\ [][Next]_vars

(* GetAllParameters is a loop; a client asks for the next page or gives up.*)
FairSpec == Spec /\ \A l \in Lister : WF_vars(NextPage(l))

-----------------------------------------------------------------------------
(* The pages of a listing go on where the last one ended: no key comes     *)
(* twice or out of order, also not one that is deleted and put again.      *)
InOrder ==
  \A l \in Lister : lister[l].pc # "idle" =>
    \A j \in lister[l].got, k \in lister[l].page : Rank[j] < Rank[k]

(* A complete listing has every key it is about that was there all along,  *)
(* although the key its token named may have been deleted in between and   *)
(* others put on both sides of it.                                         *)
SteadyAreListed ==
  \A l \in Lister : lister[l].pc = "listed" =>
    lister[l].steady \subseteq lister[l].got \cup lister[l].page

(* A listing is a scan of the bucket in byte order that promises no more   *)
(* than what Scan says: tokens are places to go on from, pages take what   *)
(* comes next, and nothing else is remembered.                             *)
At(token) == IF token = NoToken THEN 0 ELSE Rank[token]

Scanned(s) ==
  CASE s.pc = "idle" -> [pc |-> "idle"]
    [] s.pc = "paging" ->
         [pc |-> "open", order |-> "bytes", about |-> Found(s.regexes),
          at |-> At(s.token), seen |-> s.got \cup s.page, steady |-> s.steady]
    [] s.pc = "listed" ->
         [pc |-> "done", seen |-> s.got \cup s.page, steady |-> s.steady]

Scan == INSTANCE Scan WITH
  Entry <- Key, Order <- {"bytes"}, Rank <- [o \in {"bytes"} |-> Rank],
  Topic <- SUBSET Key,
  Place <- {At(token) : token \in Key \cup {NoToken}}, Scanner <- Lister,
  stored <- params, scan <- [l \in Lister |-> Scanned(lister[l])]

IsAScan == Scan!Spec

(* A listing ends, however fast parameters are put: an export cannot go on *)
(* for ever.                                                               *)
ListingsEnd ==
  \A l \in Lister : lister[l].pc = "paging" ~> lister[l].pc # "paging"
=============================================================================
