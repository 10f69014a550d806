------------------------------ MODULE Defaults ------------------------------
(***************************************************************************)
(* What create makes of the deployment that a user posts: dict_merge and   *)
(* apply_defaults with the defaults of conf/appconfig.py, and what a       *)
(* recovery makes of a stored deployment: clone_deployment, then           *)
(* apply_defaults once more.                                               *)
(*                                                                         *)
(* A nested dictionary is the function from the paths of its leaves to     *)
(* their values; a leaf is a value or an empty dictionary (EmptyDict).  So *)
(* operators on dictionaries of any depth need no recursion, and can be    *)
(* reasoned about.  MCDefaults compares Merge with the recursion of the    *)
(* code.                                                                   *)
(*                                                                         *)
(* Values are strings, Python's None, '' and False among them, but for     *)
(* those that are computed from several parts of a deployment.  A host     *)
(* stands for its only location, and a name or an image of git-quay for    *)
(* the part of it that differs.  Notifications, security, meta-info        *)
(* besides git, and settings that are treated like the ones below are left *)
(* out.                                                                    *)
(***************************************************************************)
EXTENDS Naturals, SequencesExt

CONSTANTS
  Requests,   \* what users post, as dictionaries
  Keys,       \* the keys of dictionaries
  EmptyDict   \* the dictionary without keys

VARIABLES
  request,     \* what was posted
  phase,       \* "posted", "stored", "refused", "cloned" or "recovered"
  deployment,  \* the dictionary at hand
  stored       \* the deployment that was stored first

vars == <<request, phase, deployment, stored>>

Paths == Seq(Keys)

\* The dictionary with one leaf, that of the given pairs of a path and a value,
\* and the one with the leaves of d and of e.  (The first and the last are :> and
\* @@ of module TLC, which proofs cannot expand.)
Leaf(p, value) == [q \in {p} |-> value]
Leaves(pairs) ==
  [q \in {l[1] : l \in pairs} |-> (CHOOSE l \in pairs : l[1] = q)[2]]
d ++ e == [p \in DOMAIN d \cup DOMAIN e |-> IF p \in DOMAIN d THEN d[p] ELSE e[p]]

Only(d, S) == [p \in DOMAIN d \cap S |-> d[p]]

IsFunction(d) == d = [p \in DOMAIN d |-> d[p]]

\* No leaf lies beneath another one.
IsDictionary(d) ==
  /\ IsFunction(d)
  /\ DOMAIN d \subseteq Paths
  /\ \A p, q \in DOMAIN d : IsPrefix(p, q) => p = q

\* There is something at p, or beneath it.
Has(d, p) == \E q \in DOMAIN d : IsPrefix(p, q)

\* The keys of the dictionary at p.
KeysAt(d, p) == {q[Len(p) + 1] : q \in {r \in DOMAIN d : IsStrictPrefix(p, r)}}

Put(d, p, value) ==
  Leaf(p, value)
  ++ Only(d, {q \in DOMAIN d : ~IsPrefix(p, q) /\ ~IsPrefix(q, p)})

Truthy(value) == value \notin {EmptyDict, "None", "", "False"}

-----------------------------------------------------------------------------
(* merge of dict_merge: nested, the source takes precedence.               *)

\* What is at, above or beneath a leaf of the source is not added, except
\* beneath an empty dictionary, which in turn is no leaf any more.
Added(source, defaults) ==
  {q \in DOMAIN defaults :
     \A p \in DOMAIN source :
       ~IsPrefix(q, p) /\ (IsPrefix(p, q) => source[p] = EmptyDict)}
Kept(source, defaults) ==
  {p \in DOMAIN source :
     source[p] = EmptyDict => \A q \in DOMAIN defaults : ~IsStrictPrefix(p, q)}

Merge(source, defaults) ==
  Only(source, Kept(source, defaults)) ++ Only(defaults, Added(source, defaults))

-----------------------------------------------------------------------------
(* conf/appconfig.py                                                       *)

NamePath == <<"deployment", "name">>
TypePath == <<"deployment", "type">>
ModePath == <<"deployment", "mode">>
VersionPath == <<"deployment", "version">>
GitPath(key) == <<"git", key>>
CheckPath(key) == <<"deployment", "check", key>>
StopPath == <<"deployment", "stop", "timeout">>
SchedulePath == <<"schedule">>
StatePath == <<"state">>
SharedPath == <<"environment">>  \* of all templates
TemplatesPath == <<"templates">>
AppPath == <<"templates", "app">>
TemplatePath(t, key) == <<"templates", t, key>>
ImagePath == <<"templates", "app", "args", "image">>
SidekicksPath == <<"templates", "app", "args", "sidekicks">>
ServicePath(t, key) == <<"templates", t, "args", "service", key>>
EnvironmentPath == <<"templates", "app", "args", "environment">>
VariablePath(v) == <<"templates", "app", "args", "environment", v>>
HostsPath == <<"proxy", "hosts">>
ListenersPath == <<"proxy", "listeners">>
UpstreamsPath == <<"proxy", "upstreams">>
UpstreamPath(u, key) == <<"proxy", "upstreams", u, key>>
HealthPath(u, key) == <<"proxy", "upstreams", u, "health", key>>

GIT_QUAY_DEFAULTS ==
  Leaves({
    <<NamePath, "GIT_REF">>, <<TypePath, "git-quay">>,
    <<ImagePath, "GIT_COMMIT">>, <<EnvironmentPath, EmptyDict>>,
    <<TemplatePath("app", "name"), "default-app">>,
    <<TemplatePath("yoda_register", "name"), "yoda-register">>})

DEFAULT_DEFAULTS ==
  Leaves({
    <<GitPath("ref"), "master">>, <<GitPath("commit"), "not_set">>,
    <<TypePath, "default">>, <<VersionPath, "None">>, <<ModePath, "blue-green">>,
    <<CheckPath("port"), "None">>, <<CheckPath("timeout"), "10s">>,
    <<StopPath, "30s">>, <<VariablePath("DISCOVER_UPSTREAM_TTL"), "86400">>,
    <<HostsPath, EmptyDict>>, <<ListenersPath, EmptyDict>>,
    <<UpstreamsPath, EmptyDict>>, <<SharedPath, EmptyDict>>})

UPSTREAM_DEFAULTS ==
  Leaves({<<<<"mode">>, "http">>, <<<<"health", "timeout">>, "5s">>,
          <<<<"ttl">>, "1w">>})

TEMPLATE_DEFAULTS ==
  Leaves({<<<<"enabled">>, "True">>, <<<<"args">>, EmptyDict>>})

\* The defaults of what is at each of the keys beneath p.
ForEach(p, keys, defaults) ==
  [q \in {p \o <<key>> \o r : key \in keys, r \in DOMAIN defaults} |->
     defaults[SubSeq(q, Len(p) + 2, Len(q))]]

\* The valid intervals of the model, in seconds; to_milliseconds raises for
\* the others.
Intervals == {"30s", "2m", "120s"}
Seconds(interval) == IF interval = "30s" THEN "30" ELSE "120"

-----------------------------------------------------------------------------
(* The shape that the schema of a request (schemas/app-version-create-v1   *)
(* .json) describes: which paths lead to values and which to dictionaries. *)
(* (It checks less than it describes: the pattern for templates stands     *)
(* among the properties, so that no template is checked, and some types    *)
(* are left out.  Requests that it lets pass this way are not modelled.)   *)

Fits(p, leaf) ==
  LET n == Len(p)
      value == leaf # EmptyDict
  IN \/ p[1] \in {"schedule", "state"} /\ n = 1 /\ value
     \/ /\ p[1] \in {"git", "deployment", "templates", "proxy", "environment"}
        /\ n = 1 /\ ~value
     \/ p[1] = "git" /\ n = 2 /\ value
     \/ /\ p[1] = "deployment"
        /\ \/ n = 2 /\ (value <=> p[2] \notin {"check", "stop"})
           \/ n = 3 /\ p[2] \in {"check", "stop"} /\ value
     \/ p[1] = "environment" /\ n >= 2
     \/ /\ p[1] = "proxy" /\ p[2] \in {"hosts", "listeners", "upstreams"}
        /\ \/ n \in {2, 3} /\ ~value
           \/ n = 4 /\ p[2] # "upstreams" /\ leaf \in Keys \ {EmptyDict}
           \/ n = 4 /\ p[2] = "upstreams" /\ (value <=> p[4] # "health")
           \/ n = 5 /\ p[2] = "upstreams" /\ p[4] = "health" /\ value
     \/ /\ p[1] = "templates"
        /\ \/ n = 2 /\ ~value
           \/ /\ n = 3
              /\ p[3] \in {"enabled", "name"} => value
              /\ p[3] = "args" => ~value
           \/ n >= 4 /\ p[3] \notin {"enabled", "name", "args"}
           \/ /\ n = 4 /\ p[3] = "args"
              /\ p[4] = "image" => value
              /\ p[4] \in {"environment", "service"} => ~value
           \/ n >= 5 /\ p[3] = "args" /\ p[4] # "image"

Shaped(d) == IsDictionary(d) /\ \A p \in DOMAIN d : p # <<>> /\ Fits(p, d[p])

\* The keys that the code mentions.
NamedKeys ==
  {"git", "ref", "commit", "deployment", "name", "type", "mode", "version",
   "check", "port", "path", "stop", "timeout", "templates", "app", "timer",
   "yoda_register", "enabled", "args", "image", "environment", "sidekicks",
   "service", "schedule", "container_stop_sec", "proxy", "hosts", "listeners",
   "upstream_port", "upstreams", "health", "uri", "ttl", "state",
   "DISCOVER_PORTS", "DISCOVER_MODE", "DISCOVER_HEALTH",
   "DISCOVER_UPSTREAM_TTL"}
\* The values that the code mentions.
NamedValues ==
  {"GIT_REF", "GIT_COMMIT", "git-quay", "default-app", "yoda-register",
   "master", "not_set", "default", "None", "blue-green", "10s", "30s", "86400",
   "http", "5s", "1w", "True", "False", "", "now", "NEW", "30", "120"}

ASSUME KeysAssumption == NamedKeys \subseteq Keys

ASSUME EmptyDictAssumption == EmptyDict \notin NamedValues

\* Users post what the schema describes; names in git contain no format fields.
ASSUME RequestsAssumption ==
  \A r \in Requests :
    /\ Shaped(r)
    /\ StatePath \notin DOMAIN r
    /\ \A p \in DOMAIN r : p[1] = "git" => r[p] \notin {"GIT_REF", "GIT_COMMIT"}

-----------------------------------------------------------------------------
(* apply_defaults, step by step.                                           *)

IsGitQuay(d) == d[TypePath] = "git-quay"

\* _git_quay_defaults formats the name and the image with the git meta-info.
Format(d, value) ==
  CASE value = "GIT_REF" -> d[GitPath("ref")]
    [] value = "GIT_COMMIT" -> d[GitPath("commit")]
    [] OTHER -> value
GitQuayDefaults(d) ==
  [d EXCEPT ![NamePath] = Format(d, @), ![ImagePath] = Format(d, @)]

\* Defaults for the type, general ones, git-quay, and those of each template.
Mutant_TypeDefaultsFirst(d) ==
  IF IsGitQuay(d) THEN Merge(GIT_QUAY_DEFAULTS, d) ELSE d
TypeDefaults(d) ==
  IF IsGitQuay(d) THEN Merge(d, GIT_QUAY_DEFAULTS) ELSE d
GeneralDefaults(d0) ==
  LET d1 == Merge(d0, Leaf(TypePath, "git-quay"))
      d2 == Merge(TypeDefaults(d1), DEFAULT_DEFAULTS)
  IN IF IsGitQuay(d2) THEN GitQuayDefaults(d2) ELSE d2
TemplateDefaults(d) ==
  Merge(d, ForEach(TemplatesPath, KeysAt(d, TemplatesPath), TEMPLATE_DEFAULTS))
WithDefaults(d) == TemplateDefaults(GeneralDefaults(d))

\* check_and_apply_schedule
IsScheduled(d) ==
  SchedulePath \in DOMAIN d /\ Truthy(d[SchedulePath])
Template(d, t) == Only(d, {p \in DOMAIN d : IsPrefix(<<"templates", t>>, p)})
\* The arguments with the schedule, which replaces one that they have.
Scheduled(d, t, template) ==
  Merge(Leaf(ServicePath(t, "schedule"), d[SchedulePath]), template)
Timer(d) ==
  Scheduled(d, "timer",
    Merge(Template(d, "timer"),
          Leaf(TemplatePath("timer", "name"), d[TemplatePath("app", "name")])
          ++ Leaf(TemplatePath("timer", "args"), EmptyDict)))
Mutant_TimerNotEnabled(d) ==
  IF Truthy(d[TemplatePath("app", "enabled")])
    THEN Scheduled(d, "app", Template(d, "app")) ++ Timer(d)
    ELSE Leaf(TemplatesPath, EmptyDict)
ScheduledTemplates(d) ==
  IF Truthy(d[TemplatePath("app", "enabled")])
    THEN Scheduled(d, "app", Template(d, "app"))
         ++ Put(Timer(d), TemplatePath("timer", "enabled"), "True")
    ELSE Leaf(TemplatesPath, EmptyDict)
Unwired(d) ==
  Put(Put(Put(d, HostsPath, EmptyDict), ListenersPath, EmptyDict),
      UpstreamsPath, EmptyDict)
Unchecked(d) ==
  Put(Put(d, CheckPath("port"), "None"), CheckPath("path"), "")
CheckAndApplySchedule(d0) ==
  LET d == Merge(d0, Leaf(SchedulePath, "None"))
      rest == {p \in Paths : ~IsPrefix(TemplatesPath, p)}
  IN IF IsScheduled(d)
       THEN Only(Unchecked(Unwired(d)), rest) ++ ScheduledTemplates(d)
       ELSE d

\* p leads to the port of a host or of a listener.
IsPort(p) ==
  /\ Len(p) = 4
  /\ p[1] = "proxy"
  /\ <<p[2], p[4]>> \in {<<"hosts", "port">>, <<"listeners", "upstream_port">>}
Mutant_PortsOfHosts(d) ==
  {d[p] : p \in {q \in DOMAIN d : IsPort(q) /\ q[2] = "hosts"}}
  \cup KeysAt(d, UpstreamsPath)
GetExposedPorts(d) ==
  {d[p] : p \in {q \in DOMAIN d : IsPort(q)}} \cup KeysAt(d, UpstreamsPath)

\* An upstream for each exposed port; a health uri is for http only.
IsHealth(p) == IsPrefix(UpstreamsPath, p) /\ Len(p) >= 4 /\ p[4] = "health"
UselessUri(d, p) ==
  /\ IsHealth(p) /\ p[Len(p)] = "uri" /\ Truthy(d[p])
  /\ d[UpstreamPath(p[3], "mode")] # "http"
ApplyUpstreams(d0) ==
  LET d == Merge(d0, ForEach(UpstreamsPath, GetExposedPorts(d0), UPSTREAM_DEFAULTS))
  IN Only(d, {p \in DOMAIN d : ~UselessUri(d, p)})

\* _get_app_environment: the environment of the app template, that of the
\* deployment, and, unless it is scheduled, what is to be discovered.
GeneralEnvironment(d) ==
  LET paths == {p \in DOMAIN d : IsStrictPrefix(SharedPath, p)}
  IN [q \in {EnvironmentPath \o Tail(p) : p \in paths} |->
        d[SharedPath \o SubSeq(q, 5, Len(q))]]
Discover(d) ==
  IF IsScheduled(d) THEN <<>>
  ELSE Leaf(VariablePath("DISCOVER_PORTS"), GetExposedPorts(d))
       ++ Leaf(VariablePath("DISCOVER_MODE"), d[ModePath])
       ++ Leaf(VariablePath("DISCOVER_HEALTH"),
               Only(d, {p \in DOMAIN d : IsHealth(p)}))
       ++ Leaf(VariablePath("DISCOVER_UPSTREAM_TTL"), "86400")
GetAppEnvironment(d) == Merge(Merge(d, GeneralEnvironment(d)), Discover(d))

\* The arguments of the app template, if it was not dropped.
Sidekicks(d) ==
  {t \in KeysAt(d, TemplatesPath) \ {"app", "timer"} :
     Truthy(d[TemplatePath(t, "enabled")])}
ApplyAppArguments(d) ==
  IF Has(d, AppPath)
    THEN Merge(Put(GetAppEnvironment(d), SidekicksPath, Sidekicks(d)),
               Leaf(ServicePath("app", "container_stop_sec"), Seconds(d[StopPath])))
    ELSE d

\* A deployment without a version gets the time; see Recovery.
ApplyVersion(d) ==
  Put([d EXCEPT ![VersionPath] = IF Truthy(@) THEN @ ELSE "now"],
      StatePath, "NEW")

ApplyDefaults(d) ==
  ApplyAppArguments(ApplyUpstreams(ApplyVersion(
    CheckAndApplySchedule(WithDefaults(d)))))

\* apply_defaults raises unless there is a name, of the application and, for a
\* timer, of the app template; unless every upstream is a port; and unless the
\* stop timeout is an interval.  (An empty one raises too: the fallback for it
\* is a dictionary, because its index stands on a line of its own.)
Accepts(d0) ==
  LET d1 == WithDefaults(d0)
      d2 == CheckAndApplySchedule(d1)
  IN /\ NamePath \in DOMAIN d1
     /\ IsScheduled(d1) => TemplatePath("app", "name") \in DOMAIN d1
     /\ "web" \notin KeysAt(d2, UpstreamsPath)
     /\ Has(d2, AppPath) => d2[StopPath] \in Intervals

\* clone_deployment
Mutant_DropsName(d) == Only(d, DOMAIN d \ {VersionPath, NamePath})
CloneDeployment(d) == Only(d, DOMAIN d \ {VersionPath})

-----------------------------------------------------------------------------
Init ==
  /\ request \in Requests
  /\ phase = "posted"
  /\ deployment = request
  /\ stored = <<>>

\* create raises before it has stored anything.
Refuse ==
  /\ phase \in {"posted", "cloned"}
  /\ ~Accepts(deployment)
  /\ phase' = "refused"
  /\ UNCHANGED <<request, deployment, stored>>

Create ==
  /\ phase = "posted"
  /\ Accepts(deployment)
  /\ phase' = "stored"
  /\ deployment' = ApplyDefaults(deployment)
  /\ stored' = deployment'
  /\ UNCHANGED request

\* recover_cluster
Recover ==
  /\ phase \in {"stored", "recovered"}
  /\ phase' = "cloned"
  /\ deployment' = CloneDeployment(deployment)
  /\ UNCHANGED <<request, stored>>

Recreate ==
  /\ phase = "cloned"
  /\ Accepts(deployment)
  /\ phase' = "recovered"
  /\ deployment' = ApplyDefaults(deployment)
  /\ UNCHANGED <<request, stored>>

Next == Refuse \/ Create \/ Recover \/ Recreate

Spec == Init /\ [][Next]_vars

Applied == phase \in {"stored", "recovered"}

-----------------------------------------------------------------------------
(* Properties.                                                             *)

\* What a user sets is what is stored, at any depth, but for what does not go
\* with a schedule, a health uri without http, an empty version, the format
\* fields of a name or an image, and the sidekicks, which are computed.
Overridden(p) ==
  \/ /\ IsScheduled(request)
     /\ \/ p[1] \in {"proxy", "templates"}
        \/ IsPrefix(<<"deployment", "check">>, p)
  \/ IsHealth(p) /\ p[Len(p)] = "uri"
  \/ p = VersionPath /\ ~Truthy(request[p])
  \/ p \in {NamePath, ImagePath} /\ request[p] \in {"GIT_REF", "GIT_COMMIT"}
  \/ IsPrefix(SidekicksPath, p)
UserSettingsWin ==
  phase = "stored" =>
    \A p \in DOMAIN request :
      request[p] # EmptyDict /\ ~Overridden(p) =>
        p \in DOMAIN deployment /\ deployment[p] = request[p]

\* Every default that the user left alone is there, next to what was set: the
\* general ones, and for each upstream those of an upstream.
Filled(defaults, given) ==
  \A p \in DOMAIN defaults :
    \/ Has(deployment, p)
    \/ \E q \in DOMAIN given : IsPrefix(q, p) /\ given[q] # EmptyDict
DefaultsFill ==
  Applied =>
    /\ ~IsScheduled(request) => Filled(DEFAULT_DEFAULTS, request)
    /\ Filled(ForEach(UpstreamsPath, KeysAt(deployment, UpstreamsPath),
                      UPSTREAM_DEFAULTS), <<>>)

\* In the nested merges of apply_defaults (deployment.py:225) neither side loses
\* anything to the other.
DefaultsBelowSettings == UserSettingsWin /\ DefaultsFill

\* The proxy is not told to route to a port that is no upstream of the
\* deployment (_register_upstreams registers these, wire_proxy routes to those),
\* and the application is told to announce the same ports, unless the user tells
\* it otherwise.
Announces(d) ==
  Has(d, VariablePath("DISCOVER_PORTS")) \/ Has(d, <<"environment", "DISCOVER_PORTS">>)
PortsAgree ==
  Applied =>
    LET upstreams == KeysAt(deployment, UpstreamsPath)
    IN /\ \A p \in DOMAIN deployment : IsPort(p) => deployment[p] \in upstreams
       /\ ~IsScheduled(deployment) /\ ~Announces(request) =>
            deployment[VariablePath("DISCOVER_PORTS")] = upstreams

\* The stored deployment has the app template that _deploy_all indexes, and
\* enabled and args in each template, which _deploy_all and _fleet_start index
\* without asking, except that there is no app template if a disabled one is
\* scheduled.  (The name of a template, which they index as well, has no
\* default and is not covered.)
TasksFindTemplates ==
  Applied =>
    /\ \/ Has(deployment, AppPath)
       \/ IsScheduled(request) /\ ~Truthy(request[TemplatePath("app", "enabled")])
    /\ \A t \in KeysAt(deployment, TemplatesPath) :
         /\ TemplatePath(t, "enabled") \in DOMAIN deployment
         /\ Has(deployment, TemplatePath(t, "args"))

\* A recovered deployment is the stored one again (the config of Recovery), with
\* a version of its own, however often it is recovered.  It is refused only if a
\* listener's port was no number: the schema admits anything for a listener, the
\* port becomes an upstream, and int() rejects the upstream the next time.
\* (Without an app template nothing was deployed, and the defaults fill one in.)
RecoveredAlike ==
  Has(stored, AppPath) =>
    /\ phase = "refused" => "web" \in KeysAt(stored, UpstreamsPath)
    /\ Applied =>
         /\ DOMAIN deployment = DOMAIN stored
         /\ \A p \in DOMAIN stored \ {VersionPath} : deployment[p] = stored[p]
=============================================================================
