----------------------------- MODULE MCDefaults -----------------------------
(***************************************************************************)
(* Model checking Defaults: requests put together from one choice for each *)
(* part of a deployment, and Merge compared with the recursion of the      *)
(* code.                                                                   *)
(***************************************************************************)
EXTENDS Defaults

App(p) == <<"templates", "app">> \o p

Types == {<<>>, Leaf(TypePath, "custom")}
Names == {<<>>, Leaf(NamePath, "shop")}
Versions ==
  {Leaf(VersionPath, "v1"), Leaf(VersionPath, "") ++ Leaf(ModePath, "a/b")}
Stops == {<<>>} \cup {Leaf(StopPath, t) : t \in {"2m", "", "soon"}}
Schedules == {<<>>, Leaf(<<"schedule">>, "daily")}
Apps ==
  {<<>>,
   Leaf(App(<<"name">>), "worker")
     ++ Leaf(App(<<"args", "environment", "DISCOVER_MODE">>), "none"),
   Leaf(App(<<"enabled">>), "False")}
Others ==
  {<<>>,
   Leaf(<<"templates", "logger", "name">>, "logger")
     ++ Leaf(<<"templates", "yoda_register", "enabled">>, "False")
     ++ Leaf(<<"environment", "DEBUG">>, "1")}
Proxies ==
  {<<>>,
   Leaf(<<"proxy", "hosts", "shop.example.com", "port">>, "8080"),
   Leaf(<<"proxy", "listeners", "db", "upstream_port">>, "5432")
     ++ Leaf(<<"proxy", "upstreams", "8080", "mode">>, "tcp")
     ++ Leaf(<<"proxy", "upstreams", "8080", "health", "uri">>, "/health"),
   Leaf(<<"proxy", "listeners", "db", "upstream_port">>, "web"),
   Leaf(<<"proxy", "upstreams", "web">>, EmptyDict)}

AllRequests ==
  {type ++ name ++ version ++ stop ++ schedule ++ app ++ other ++ proxy :
     type \in Types, name \in Names, version \in Versions, stop \in Stops,
     schedule \in Schedules, app \in Apps, other \in Others, proxy \in Proxies}

AllKeys ==
  NamedKeys \cup {"logger", "DEBUG", "shop.example.com", "db", "8080", "5432", "web"}

-----------------------------------------------------------------------------
(* Dictionaries of depth n as trees: a dictionary is a function of its     *)
(* keys, a value is [leaf |-> value], and merge is the function of util.py. *)

RECURSIVE Trees(_, _), MergeTrees(_, _), Flat(_)
Trees(n, value) ==
  {<<>>, [leaf |-> value]} \cup
    IF n = 0 THEN {}
    ELSE UNION {[keys -> Trees(n - 1, value)] : keys \in SUBSET {"a", "b"}}

IsTree(t) == "leaf" \notin DOMAIN t
MergeTrees(source, defaults) ==
  IF IsTree(source) /\ IsTree(defaults)
    THEN [key \in DOMAIN source \cup DOMAIN defaults |->
            IF key \notin DOMAIN source THEN defaults[key]
            ELSE IF key \notin DOMAIN defaults THEN source[key]
            ELSE MergeTrees(source[key], defaults[key])]
    ELSE source

Flat(t) ==
  IF DOMAIN t = {} THEN Leaf(<<>>, EmptyDict)
  ELSE IF ~IsTree(t) THEN Leaf(<<>>, t.leaf)
  ELSE [p \in UNION {{<<key>> \o q : q \in DOMAIN Flat(t[key])} : key \in DOMAIN t} |->
          Flat(t[Head(p)])[Tail(p)]]

ASSUME MergeIsNested ==
  \A source \in Trees(2, "x"), defaults \in Trees(2, "y") :
    Flat(MergeTrees(source, defaults)) = Merge(Flat(source), Flat(defaults))
=============================================================================
