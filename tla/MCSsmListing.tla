---------------------------- MODULE MCSsmListing ----------------------------
(* Five keys in byte order: /a, /a.b, /a/b, /a/c, /axb.  Pages of one or   *)
(* two; what is found by path fills two pages of one.                      *)
EXTENDS SsmListing, TLC

CONSTANTS l1

MCKey == {"/a", "/a.b", "/a/b", "/a/c", "/axb"}
MCRank == "/a" :> 1 @@ "/a.b" :> 2 @@ "/a/b" :> 3 @@ "/a/c" :> 4 @@ "/axb" :> 5
MCPath == {"/a", "/a.b"}

MCMatching ==
  [r \in Regex |->
    CASE r = All -> MCKey
      [] r = Equals("/a") -> {"/a"}
      [] r = Equals("/a.b") -> {"/a.b", "/a/b", "/axb"}
      [] r \in {Below("/a"), Child("/a")} -> {"/a/b", "/a/c"}
      [] OTHER -> {}]

MCPageLimit == "describe" :> 2 @@ "path" :> 1 @@ "export" :> 2
MCMaxResults == {-1, 0, 1, 2, 3}
MCLister == {l1}

Filter(key, option, values) == [key |-> key, option |-> option, values |-> values]
MCFilterList ==
  { {}, {Filter("Name", "Equals", {"/a", "/a.b"})},
    {Filter("Name", "BeginsWith", {"/a"}), Filter("Path", "OneLevel", {"/a.b"})},
    {Filter("Path", "Equals", {"/a"})}, {Filter("Other", "Equals", {"/a"})} }
=============================================================================
