------------------------- MODULE TaskResults_proofs -------------------------
(***************************************************************************)
(* Proofs about TaskResults for any number of tasks in the header of the   *)
(* chord and any number of dropped messages.                               *)
(*                                                                         *)
(* The argument: a task is there only when what starts it has run, and     *)
(* once that has run it is there (Growth), so the results that are there   *)
(* are a beginning of the tree.  async_wait and the requests follow them   *)
(* from the root up to the first that did not succeed; what is not there   *)
(* yet can only hang on a result that is not ready, which they would have  *)
(* met.                                                                    *)
(***************************************************************************)
EXTENDS TaskResults, TLAPS

Begun(t) == state[t] \in {"running", "success"}

Settled == ~Working /\ ~UnlockDue

States ==
  state \in [Tasks -> {"absent", "queued", "running", "retrying", "success",
                      "failure", "chord_error", "lost"}]

\* Which states go with which tasks.
Kinds ==
  /\ \A t \in Tasks \ {Body} : state[t] # "chord_error"
  /\ \A t \in Tasks :
       state[t] = "retrying" => t \in {"_using_lock", "async_wait"}
  /\ state["async_wait"] # "running"

\* What is there has been started, and what was started is there.
Growth ==
  /\ state["_using_lock"] # "absent" => Begun("create")
  /\ state["_start_deployment"] # "absent" => Begun("_using_lock")
  /\ state["_pre_create_undeploy"] # "absent"
       <=> state["_start_deployment"] = "success"
  /\ state["async_wait"] # "absent" <=> state["_pre_create_undeploy"] = "success"
  /\ state["_fleet_stop"] # "absent" <=> Begun("_pre_create_undeploy")
  /\ state["_deploy_all"] # "absent" <=> state["_fleet_stop"] = "success"
  /\ \A h \in Header : (state[h] # "absent" <=> Begun("_deploy_all"))
  /\ state["_promote_success"] # "absent" <=> Begun(Body)

\* The body of a chord comes after its whole header.
BodyAfterHeader ==
  /\ state[Body] # "absent" => \A h \in Header : Ready(h)
  /\ state[Body] \notin {"absent", "chord_error"} =>
       \A h \in Header : state[h] = "success"
  /\ state[Body] = "chord_error" /\ ~ChordBreaks => \E h \in Header : Failed(h)

\* What async_wait ended with is what the tree says.
VerdictInv ==
  /\ Ended => Settled
  /\ state["async_wait"] = "success" =>
       \/ state["_promote_success"] = "success"
       \/ state[Body] = "chord_error" /\ ChordBreaks
  /\ VerdictExplained

\* The tasks between a request and async_wait.
Spine == {"create", "_using_lock", "_start_deployment", "_pre_create_undeploy",
          "async_wait"}

AnswerInv ==
  \A c \in Clients :
    /\ answer[c].output = "value" => state["async_wait"] = "success"
    /\ answer[c].output = "error" => \E t \in Spine : Failed(t)

IInv == TypeOK /\ Kinds /\ Growth /\ BodyAfterHeader /\ VerdictInv /\ AnswerInv

-----------------------------------------------------------------------------
(* Following results.                                                      *)

Places == Tasks \cup {None}

\* From each place, next leads to None in at most four steps.
Ends(next) ==
  \E rank \in [Places -> 0..4] :
    \A t \in Places : t = None \/ rank[next[t]] < rank[t]

\* What follows next up to a place where stop holds, and takes base there.
Follows(f, next, stop, base) ==
  f = [t \in Places |-> IF stop[t] THEN base[t] ELSE f[next[t]]]

\* There is such a function.
LEMMA Recursion ==
  ASSUME NEW next \in [Places -> Places], Ends(next),
         NEW stop, stop[None], NEW base
  PROVE  \E f : Follows(f, next, stop, base)
<1> DEFINE Unfold(g) ==
             [t \in Places |-> IF stop[t] THEN base[t] ELSE g[next[t]]]
           f0 == Unfold(base)
           f1 == Unfold(f0)
           f2 == Unfold(f1)
           f3 == Unfold(f2)
           f4 == Unfold(f3)
<1>. PICK rank \in [Places -> 0..4] :
       \A t \in Places : t = None \/ rank[next[t]] < rank[t]
  BY DEF Ends
<1> DEFINE Agree(f, g, n) == \A t \in Places : rank[t] <= n => f[t] = g[t]
<1>1. \A t \in Places : stop[t] \/ rank[next[t]] < rank[t] OBVIOUS
<1>2. Agree(f0, f1, 0) BY <1>1
<1>3. ASSUME NEW f, NEW g, NEW n \in 0..3, Agree(f, g, n)
      PROVE  Agree(Unfold(f), Unfold(g), n + 1)
  <2> SUFFICES ASSUME NEW t \in Places, rank[t] <= n + 1
               PROVE  Unfold(f)[t] = Unfold(g)[t]
    OBVIOUS
  <2>1. CASE stop[t] BY <2>1
  <2>2. CASE ~stop[t]
    <3>1. next[t] \in Places /\ rank[next[t]] \in Nat /\ rank[t] \in Nat
      OBVIOUS
    <3>2. rank[next[t]] < rank[t] BY <1>1, <2>2
    <3>3. rank[next[t]] <= n BY <3>1, <3>2
    <3> QED BY <1>3, <2>2, <3>1, <3>3
  <2> QED BY <2>1, <2>2
<1> HIDE DEF Agree, Unfold
<1>4. Agree(f1, f2, 1) BY <1>2, <1>3
<1>5. Agree(f2, f3, 2) BY <1>3, <1>4
<1>6. Agree(f3, f4, 3) BY <1>3, <1>5
<1>7. Agree(f4, Unfold(f4), 4) BY <1>3, <1>6
<1>8. f4 = Unfold(f4)
  <2>1. \A t \in Places : rank[t] <= 4 OBVIOUS
  <2>2. \A t \in Places : f4[t] = Unfold(f4)[t] BY <1>7, <2>1 DEF Agree
  <2> QED BY <2>2 DEF Unfold
<1> QED BY <1>8 DEF Unfold, Follows

\* A chain ends after three tasks at most.
LEMMA ParentType == Parent \in [Places -> Places] /\ Ends(Parent)
<1> DEFINE r == [t \in Places |->
                   CASE t = None -> 0
                     [] t = "async_wait" -> 3
                     [] t \in {"_pre_create_undeploy", "_deploy_all"} -> 2
                     [] OTHER -> 1]
<1>1. Parent \in [Places -> Places]
  BY DEF Parent, Places, Tasks, Pipeline, None
<1>2. r \in [Places -> 0..4] BY DEF None
<1>3. \A t \in Places : t = None \/ r[Parent[t]] < r[t]
  BY <1>1 DEF Parent, None
<1> QED BY <1>1, <1>2, <1>3 DEF Ends

\* So does following returned results, after four.
LEMMA ReturnsType == Returns \in [Places -> Places] /\ Ends(Returns)
<1> DEFINE r == [t \in Places |->
                   CASE t = None -> 0
                     [] t \in {"_pre_create_undeploy"} -> 4
                     [] t \in {"create", "_deploy_all"} -> 3
                     [] t \in {"_using_lock", Body} -> 2
                     [] OTHER -> 1]
<1>1. Returns \in [Places -> Places]
  BY DEF Returns, Places, Tasks, Pipeline, None
<1>2. r \in [Places -> 0..4] BY DEF None
<1>3. \A t \in Places : t = None \/ r[Returns[t]] < r[t]
  BY <1>1 DEF Returns, None, Body
<1> QED BY <1>1, <1>2, <1>3 DEF Ends

\* What CheckError computes.
LEMMA CheckErrorStep ==
  ASSUME NEW t \in Places
  PROVE  CheckError(t) = IF t = None THEN None
                         ELSE IF Raises(t) # None THEN Raises(t)
                         ELSE CheckError(Parent[t])
<1> DEFINE stop == [u \in Places |-> u = None \/ Raises(u) # None]
           base == [u \in Places |-> IF u = None THEN None ELSE Raises(u)]
<1>1. PICK f : Follows(f, Parent, stop, base)
  <2>1. stop[None] BY DEF Places
  <2> HIDE DEF stop, base
  <2> QED BY <2>1, ParentType, Recursion
<1>2. f = [u \in Places |-> IF u = None THEN None
                            ELSE IF Raises(u) # None THEN Raises(u)
                            ELSE f[Parent[u]]]
  BY <1>1 DEF Follows
<1> QED BY <1>2, ParentType DEF CheckError, Places

\* What SimpleResult computes.
LEMMA SimpleResultStep ==
  ASSUME NEW t \in Places
  PROVE  SimpleResult(t) = IF t = None THEN "value"
                           ELSE IF CheckError(t) # None THEN CheckError(t)
                           ELSE IF state[t] = "chord_error" THEN "value"
                           ELSE IF state[t] = "success" THEN SimpleResult(Returns[t])
                           ELSE "not_ready"
<1> DEFINE stop == [u \in Places |-> \/ u = None \/ CheckError(u) # None
                                     \/ state[u] # "success"]
           base == [u \in Places |-> IF u = None THEN "value"
                                     ELSE IF CheckError(u) # None THEN CheckError(u)
                                     ELSE IF state[u] = "chord_error" THEN "value"
                                     ELSE "not_ready"]
<1>1. PICK f : Follows(f, Returns, stop, base)
  <2>1. stop[None] BY DEF Places
  <2> HIDE DEF stop, base
  <2> QED BY <2>1, ReturnsType, Recursion
<1>2. f = [u \in Places |-> IF u = None THEN "value"
                            ELSE IF CheckError(u) # None THEN CheckError(u)
                            ELSE IF state[u] = "chord_error" THEN "value"
                            ELSE IF state[u] = "success" THEN f[Returns[u]]
                            ELSE "not_ready"]
  BY <1>1 DEF Follows
<1> QED BY <1>2, ReturnsType DEF SimpleResult, Places

\* What FailedParent computes.
LEMMA FailedParentStep ==
  ASSUME NEW t \in Places
  PROVE  FailedParent[t] = IF t = None THEN None
                           ELSE IF Failed(t) THEN t
                           ELSE FailedParent[Parent[t]]
<1> DEFINE stop == [u \in Places |-> u = None \/ Failed(u)]
           base == [u \in Places |-> u]
<1>1. PICK f : Follows(f, Parent, stop, base)
  <2>1. stop[None] BY DEF Places
  <2> HIDE DEF stop, base
  <2> QED BY <2>1, ParentType, Recursion
<1>2. f = [u \in Places |-> IF u = None THEN None
                            ELSE IF Failed(u) THEN u
                            ELSE f[Parent[u]]]
  BY <1>1 DEF Follows
<1> QED BY <1>2, ParentType DEF FailedParent, Places

\* What FindErrorTask computes.
LEMMA FindErrorTaskStep ==
  ASSUME NEW t \in Places
  PROVE  FindErrorTask(t) = IF t = None THEN None
                            ELSE IF Failed(t) THEN t
                            ELSE IF Pending(t) THEN FailedParent[Parent[t]]
                            ELSE IF state[t] = "success" THEN FindErrorTask(Returns[t])
                            ELSE None
<1> DEFINE stop == [u \in Places |-> \/ u = None \/ Failed(u) \/ Pending(u)
                                     \/ state[u] # "success"]
           base == [u \in Places |-> IF u = None THEN None
                                     ELSE IF Failed(u) THEN u
                                     ELSE IF Pending(u) THEN FailedParent[Parent[u]]
                                     ELSE None]
<1>1. PICK f : Follows(f, Returns, stop, base)
  <2>1. stop[None] BY DEF Places
  <2> HIDE DEF stop, base
  <2> QED BY <2>1, ReturnsType, Recursion
<1>2. f = [u \in Places |-> IF u = None THEN None
                            ELSE IF Failed(u) THEN u
                            ELSE IF Pending(u) THEN FailedParent[Parent[u]]
                            ELSE IF state[u] = "success" THEN f[Returns[u]]
                            ELSE None]
  BY <1>1 DEF Follows
<1> QED BY <1>2, ReturnsType DEF FindErrorTask, Places

\* What Follow computes.
LEMMA FollowStep ==
  ASSUME NEW t \in Places
  PROVE  Follow[t] = IF t = None THEN "value"
                     ELSE IF Failed(t) THEN "error"
                     ELSE IF state[t] = "success" THEN Follow[Returns[t]]
                     ELSE IF FailedParent[Parent[t]] # None THEN "parent_failed"
                     ELSE "not_ready"
<1> DEFINE stop == [u \in Places |-> u = None \/ Failed(u) \/ state[u] # "success"]
           base == [u \in Places |-> IF u = None THEN "value"
                                     ELSE IF Failed(u) THEN "error"
                                     ELSE IF FailedParent[Parent[u]] # None
                                     THEN "parent_failed"
                                     ELSE "not_ready"]
<1>1. PICK f : Follows(f, Returns, stop, base)
  <2>1. stop[None] BY DEF Places
  <2> HIDE DEF stop, base
  <2> QED BY <2>1, ReturnsType, Recursion
<1>2. f = [u \in Places |-> IF u = None THEN "value"
                            ELSE IF Failed(u) THEN "error"
                            ELSE IF state[u] = "success" THEN f[Returns[u]]
                            ELSE IF FailedParent[Parent[u]] # None THEN "parent_failed"
                            ELSE "not_ready"]
  BY <1>1 DEF Follows
<1> QED BY <1>2, ReturnsType DEF Follow, Places

-----------------------------------------------------------------------------
(* The verdict of async_wait, and what a request finds.                    *)

\* Which tasks are which; no template has the name of another task.
LEMMA Names ==
  /\ Spine \subseteq Tasks /\ Pipeline \subseteq Tasks
  /\ Spine \cap Pipeline = {}
  /\ Body \in Pipeline /\ Header \subseteq Pipeline
  /\ {"_fleet_stop", "_deploy_all", "_promote_success"} \subseteq Pipeline
  /\ Header \cap {"_fleet_stop", "_deploy_all", Body, "_promote_success"} = {}
  /\ Pipeline \cap {None, "value", "not_ready"} = {}
  /\ Tasks \subseteq Places /\ None \in Places /\ None \notin Tasks
BY HeaderAssumption DEF Spine, Tasks, Pipeline, Body, Places, None

\* What async_wait makes of the states of the pipeline.
LEMMA VerdictIs ==
  ASSUME Kinds
  PROVE  Verdict = IF state["_deploy_all"] = "failure" THEN "_deploy_all"
                   ELSE IF state["_fleet_stop"] = "failure" THEN "_fleet_stop"
                   ELSE IF state["_deploy_all"] # "success" THEN "not_ready"
                   ELSE IF state[Body] = "failure" THEN Body
                   ELSE IF state[Body] = "chord_error"
                   THEN IF \E h \in Header : Failed(h)
                        THEN CHOOSE h \in Header : Failed(h)
                        ELSE "value"
                   ELSE IF state[Body] # "success" THEN "not_ready"
                   ELSE IF state["_promote_success"] = "failure"
                   THEN "_promote_success"
                   ELSE IF state["_promote_success"] = "success" THEN "value"
                   ELSE "not_ready"
<1>1. /\ Returns["_pre_create_undeploy"] = "_deploy_all"
      /\ Returns["_deploy_all"] = Body /\ Returns[Body] = "_promote_success"
      /\ Returns["_promote_success"] = None
      /\ Parent["_deploy_all"] = "_fleet_stop" /\ Parent["_fleet_stop"] = None
      /\ Parent[Body] = None /\ Parent["_promote_success"] = None
  BY Names DEF Returns, Parent, Body, Places, Tasks, Pipeline
<1>2. \A t \in Tasks \ {Body} :
        Raises(t) = IF state[t] = "failure" THEN t ELSE None
  BY DEF Raises, Kinds
<1>3. CheckError(None) = None BY Names, CheckErrorStep
<1>4. CheckError("_fleet_stop") =
        IF state["_fleet_stop"] = "failure" THEN "_fleet_stop" ELSE None
  BY Names, <1>1, <1>2, <1>3, CheckErrorStep DEF Body, None
<1>5. CheckError("_deploy_all") =
        IF state["_deploy_all"] = "failure" THEN "_deploy_all"
        ELSE CheckError("_fleet_stop")
  BY Names, <1>1, <1>2, CheckErrorStep DEF Body, None
<1>6. CheckError("_promote_success") =
        IF state["_promote_success"] = "failure" THEN "_promote_success"
        ELSE None
  BY Names, <1>1, <1>2, <1>3, CheckErrorStep DEF Body, None
<1>7. CheckError(Body) = Raises(Body)
  BY Names, <1>1, <1>3, CheckErrorStep
<1>8. (\E h \in Header : Failed(h)) => (CHOOSE h \in Header : Failed(h)) # None
  BY Names
<1>9. SimpleResult("_promote_success") =
        IF state["_promote_success"] = "failure" THEN "_promote_success"
        ELSE IF state["_promote_success"] = "success" THEN "value"
        ELSE "not_ready"
  <2>1. state["_promote_success"] # "chord_error"
    BY Names DEF Kinds, Body
  <2>2. SimpleResult(None) = "value" BY Names, SimpleResultStep
  <2> QED BY Names, <1>1, <1>6, <2>1, <2>2, SimpleResultStep DEF None
<1>10. SimpleResult(Body) =
        IF state[Body] = "failure" THEN Body
        ELSE IF state[Body] = "chord_error"
        THEN IF \E h \in Header : Failed(h) THEN CHOOSE h \in Header : Failed(h)
             ELSE "value"
        ELSE IF state[Body] = "success" THEN SimpleResult("_promote_success")
        ELSE "not_ready"
  <2>1. SimpleResult(Body) =
          IF Raises(Body) # None THEN Raises(Body)
          ELSE IF state[Body] = "chord_error" THEN "value"
          ELSE IF state[Body] = "success" THEN SimpleResult("_promote_success")
          ELSE "not_ready"
    BY Names, <1>1, <1>7, SimpleResultStep DEF None, Body
  <2> QED BY <1>8, <2>1 DEF Raises, Body, None
<1>11. SimpleResult("_deploy_all") =
        IF CheckError("_deploy_all") # None THEN CheckError("_deploy_all")
        ELSE IF state["_deploy_all"] = "success" THEN SimpleResult(Body)
        ELSE "not_ready"
  <2>1. state["_deploy_all"] # "chord_error" BY Names DEF Kinds, Body
  <2> QED BY Names, <1>1, <2>1, SimpleResultStep
<1> HIDE DEF Kinds
<1> QED BY <1>1, <1>4, <1>5, <1>9, <1>10, <1>11 DEF Verdict, None, Body

\* FindErrorTask finds what failed on the way to async_wait.
LEMMA FoundFailed ==
  ASSUME FindErrorTask("create") # None
  PROVE  \E t \in Spine : Failed(t)
<1>1. /\ Returns["create"] = "_using_lock"
      /\ Returns["_using_lock"] = "async_wait" /\ Returns["async_wait"] = None
      /\ Parent["create"] = None /\ Parent["_using_lock"] = None
      /\ Parent["async_wait"] = "_pre_create_undeploy"
      /\ Parent["_pre_create_undeploy"] = "_start_deployment"
      /\ Parent["_start_deployment"] = None
  BY Names DEF Returns, Parent, Places, Tasks
<1>2. SUFFICES ASSUME \A t \in Spine : ~Failed(t)
               PROVE  FindErrorTask("create") = None
  OBVIOUS
<1>3. FailedParent[None] = None BY Names, FailedParentStep
<1>4. FailedParent["_start_deployment"] = None
  BY Names, <1>1, <1>2, <1>3, FailedParentStep DEF Spine
<1>5. FailedParent["_pre_create_undeploy"] = None
  BY Names, <1>1, <1>2, <1>4, FailedParentStep DEF Spine
<1>6. FindErrorTask(None) = None BY Names, FindErrorTaskStep
<1>7. FindErrorTask("async_wait") = None
  BY Names, <1>1, <1>2, <1>5, <1>6, FindErrorTaskStep DEF Spine
<1>8. FindErrorTask("_using_lock") = None
  BY Names, <1>1, <1>2, <1>3, <1>7, FindErrorTaskStep DEF Spine
<1> QED BY Names, <1>1, <1>2, <1>3, <1>8, FindErrorTaskStep DEF Spine

\* Follow reaches the end of async_wait, or what failed on the way to it.
LEMMA Followed ==
  /\ Follow["create"] = "value" => state["async_wait"] = "success"
  /\ Follow["create"] = "error" => \E t \in Spine : Failed(t)
<1>1. /\ Returns["create"] = "_using_lock"
      /\ Returns["_using_lock"] = "async_wait" /\ Returns["async_wait"] = None
  BY Names DEF Returns, Places, Tasks
<1>2. Follow[None] = "value" BY Names, FollowStep
<1>3. /\ Follow["async_wait"] = "value" => state["async_wait"] = "success"
      /\ Follow["async_wait"] = "error" => Failed("async_wait")
  BY Names, <1>1, <1>2, FollowStep DEF Spine, None
<1>4. /\ Follow["_using_lock"] = "value" => Follow["async_wait"] = "value"
      /\ Follow["_using_lock"] = "error" =>
           Failed("_using_lock") \/ Follow["async_wait"] = "error"
  BY Names, <1>1, FollowStep DEF Spine, None
<1>5. /\ Follow["create"] = "value" => Follow["_using_lock"] = "value"
      /\ Follow["create"] = "error" =>
           Failed("create") \/ Follow["_using_lock"] = "error"
  BY Names, <1>1, FollowStep DEF Spine, None
<1> QED BY <1>3, <1>4, <1>5 DEF Spine

-----------------------------------------------------------------------------
(* The invariant.                                                          *)

\* What the tasks start, and what comes after them.
LEMMA Order ==
  ASSUME NEW t \in Tasks, NEW u \in Tasks
  PROVE  /\ u \in Starts(t) <=>
              \/ t = "create" /\ u = "_using_lock"
              \/ t = "_using_lock" /\ u = "_start_deployment"
              \/ t = "_pre_create_undeploy" /\ u = "_fleet_stop"
              \/ t = "_deploy_all" /\ u \in Header
              \/ t = Body /\ u = "_promote_success"
         /\ Parent[u] = t <=>
              \/ t = "_start_deployment" /\ u = "_pre_create_undeploy"
              \/ t = "_pre_create_undeploy" /\ u = "async_wait"
              \/ t = "_fleet_stop" /\ u = "_deploy_all"
<1>1. t # None BY Names
<1>2. u \in Places BY Names
<1> QED BY <1>1, <1>2 DEF Starts, Parent, Body, Places

\* The part of the invariant about the tasks.
TreeInv == TypeOK /\ Kinds /\ Growth /\ BodyAfterHeader

\* A task that waits ends without having begun, or goes on waiting.
LEMMA Alone ==
  ASSUME TreeInv, NEW t \in Tasks, Waiting(t),
         NEW new \in {"failure", "lost", "retrying", "success"},
         new = "success" => t = "async_wait",
         new = "retrying" => t \in {"_using_lock", "async_wait"},
         Becomes({t}, new)
  PROVE  /\ States'
         /\ Kinds' /\ Growth' /\ BodyAfterHeader'
<1> USE DEF TreeInv, Becomes, Waiting
<1>1. \A u \in Tasks : state'[u] = IF u = t THEN new ELSE state[u] OBVIOUS
<1>2. States' BY DEF TypeOK, States
<1>3. Kinds' BY <1>1, Names DEF Kinds, Spine
<1>4. /\ \A u \in Tasks : state'[u] # "absent" <=> state[u] # "absent"
      /\ \A u \in Tasks \ {"async_wait"} :
           /\ Begun(u)' <=> Begun(u)
           /\ state'[u] = "success" <=> state[u] = "success"
  BY <1>1 DEF Begun
<1>5. Growth' BY <1>4, Names DEF Growth, Spine, Begun
<1>6. BodyAfterHeader'
  BY <1>1, Names DEF BodyAfterHeader, Ready, Failed, Kinds, Spine
<1> QED BY <1>2, <1>3, <1>5, <1>6

\* A task runs.
LEMMA TaskBegins ==
  ASSUME TreeInv, NEW t \in Tasks, Begin(t)
  PROVE  /\ States'
         /\ Kinds' /\ Growth' /\ BodyAfterHeader'
         /\ \A u \in Tasks :
              state[u] \in {"success", "failure", "chord_error", "lost"} =>
                state'[u] = state[u]
<1> USE DEF TreeInv, Begin, Waiting
<1>1. \A u \in Tasks : state'[u] = IF u = t THEN "running"
                                   ELSE IF u \in Starts(t) THEN "queued"
                                   ELSE state[u]
  OBVIOUS
<1>2. States' BY DEF TypeOK, States
<1>3. \A u \in Tasks : u \in Starts(t) => state[u] = "absent" /\ u # t
  BY Order, Names DEF Growth, Begun, Spine
<1>4. Kinds' BY <1>1, Names DEF Kinds, Spine
<1>5. Growth'
  BY <1>1, <1>3, Order, Names DEF Growth, Begun, Spine
<1>6. BodyAfterHeader'
  <2>1. Body \notin Starts(t) BY Order, Names DEF Body
  <2>2. \/ state'[Body] = state[Body]
        \/ state[Body] \in {"queued", "retrying"} /\ state'[Body] = "running"
    BY <1>1, <2>1, Names
  <2>3. \A h \in Header : /\ Ready(h) => state'[h] = state[h]
                          /\ Failed(h) => Ready(h)
    BY <1>1, <1>3, Names DEF Ready, Failed
  <2> QED BY <2>2, <2>3, Names DEF BodyAfterHeader, Ready, Failed
<1> QED BY <1>1, <1>2, <1>3, <1>4, <1>5, <1>6

\* A task ends, and the next of its chain is queued.
LEMMA TaskEnds ==
  ASSUME TreeInv, NEW t \in Tasks, End(t)
  PROVE  /\ States'
         /\ Kinds' /\ Growth' /\ BodyAfterHeader'
         /\ \A u \in Tasks :
              state[u] \in {"success", "failure", "chord_error", "lost"} =>
                state'[u] = state[u]
<1> USE DEF TreeInv, End
<1>1. \A u \in Tasks : state'[u] = IF u = t THEN "success"
                                   ELSE IF Parent[u] = t THEN "queued"
                                   ELSE state[u]
  OBVIOUS
<1>2. States' BY DEF TypeOK, States
<1>3. \A u \in Tasks : Parent[u] = t => state[u] = "absent" /\ u # t
  BY Order, Names DEF Growth, Begun, Spine
<1>4. Kinds' BY <1>1, Names DEF Kinds, Spine
<1>5. Growth'
  BY <1>1, <1>3, Order, Names DEF Growth, Begun, Spine
<1>6. BodyAfterHeader'
  <2>1. Parent[Body] # t BY Order, Names DEF Body
  <2>2. \/ state'[Body] = state[Body]
        \/ state[Body] = "running" /\ state'[Body] = "success"
    BY <1>1, <2>1, Names
  <2>3. \A h \in Header : /\ Ready(h) => state'[h] = state[h]
                          /\ Failed(h) => Ready(h)
    BY <1>1, <1>3, Names DEF Ready, Failed
  <2> QED BY <2>2, <2>3, Names DEF BodyAfterHeader, Ready, Failed
<1> QED BY <1>1, <1>2, <1>3, <1>4, <1>5, <1>6

\* The body of the chord is queued, or fails.
LEMMA ChordUnlocked ==
  ASSUME TreeInv, UnlockChord
  PROVE  /\ States'
         /\ Kinds' /\ Growth' /\ BodyAfterHeader'
<1> USE DEF TreeInv, UnlockChord, Becomes
<1>1. PICK new \in {"queued", "chord_error"} :
        /\ \A u \in Tasks : state'[u] = IF u = Body THEN new ELSE state[u]
        /\ state' = [u \in Tasks |-> IF u = Body THEN new ELSE state[u]]
        /\ new = "queued" => \A h \in Header : ~Failed(h)
        /\ new = "chord_error" => ChordBreaks \/ \E h \in Header : Failed(h)
  OBVIOUS
<1>2. States' BY <1>1 DEF TypeOK, States
<1>3. Kinds' BY <1>1, Names DEF Kinds, Spine
<1>4. Growth' BY <1>1, Names DEF Growth, Begun, Body, Spine
<1>5. BodyAfterHeader'
  BY <1>1, Names DEF BodyAfterHeader, Ready, Failed
<1> QED BY <1>2, <1>3, <1>4, <1>5

-----------------------------------------------------------------------------
(* What the verdict says of the tree.                                      *)

\* A verdict is a task that failed, "value" or "not_ready".
LEMMA VerdictBlames ==
  ASSUME TreeInv
  PROVE  \/ Verdict \in {"value", "not_ready"}
         \/ Verdict \in Pipeline /\ state[Verdict] = "failure"
<1>1. (\E h \in Header : Failed(h)) =>
        LET h == CHOOSE h \in Header : Failed(h)
        IN  h \in Pipeline /\ state[h] = "failure"
  BY Names DEF TreeInv, Kinds, Failed
<1> QED BY <1>1, Names, VerdictIs DEF TreeInv

\* A value means that the last task is done, or that Celery lost a chord.
LEMMA ValueMeansDone ==
  ASSUME TreeInv, Verdict = "value"
  PROVE  \/ state["_promote_success"] = "success"
         \/ state[Body] = "chord_error" /\ ChordBreaks
<1>1. CASE state["_promote_success"] = "success" BY <1>1
<1>2. CASE state[Body] = "chord_error" /\ ~\E h \in Header : Failed(h)
  BY <1>2, ChordBreaksAssumption DEF TreeInv, BodyAfterHeader
<1>3. (\E h \in Header : Failed(h)) =>
        (CHOOSE h \in Header : Failed(h)) # "value"
  BY Names
<1> QED BY <1>1, <1>2, <1>3, Names, VerdictIs DEF TreeInv

\* The states of a tree that async_wait has a verdict about.
LEMMA VerdictSettles ==
  ASSUME TreeInv, state["_pre_create_undeploy"] = "success",
         Verdict # "not_ready"
  PROVE  Settled
<1>1. PICK h \in Header : TRUE BY HeaderAssumption
<1>2. /\ state["_deploy_all"] # "absent" => state["_fleet_stop"] = "success"
      /\ ~Begun("_deploy_all") => \A g \in Header : state[g] = "absent"
      /\ ~Begun(Body) => state["_promote_success"] = "absent"
      /\ state["_fleet_stop"] # "success" => state["_deploy_all"] = "absent"
  BY DEF TreeInv, Growth
<1>3. state[Body] # "absent" => \A g \in Header : Ready(g)
  BY DEF TreeInv, BodyAfterHeader
<1>4. (\A g \in Header : state[g] = "absent") =>
        state[Body] = "absent" /\ ~UnlockDue
  BY <1>1, <1>3 DEF UnlockDue, Ready, Failed
<1>5. Working => \E t \in Header \cup {"_fleet_stop", "_deploy_all", Body,
                                     "_promote_success"} :
                  state[t] \in {"queued", "retrying", "running"}
  BY DEF Working, Waiting, Pipeline, Body
<1>6. CASE state["_deploy_all"] = "failure"
  BY <1>2, <1>4, <1>5, <1>6 DEF Settled, Begun
<1>7. CASE state["_fleet_stop"] = "failure"
  BY <1>2, <1>4, <1>5, <1>7 DEF Settled, Begun
<1>8. CASE state["_deploy_all"] = "success" /\ state[Body] # "absent"
           /\ \/ state[Body] \in {"failure", "chord_error"}
              \/ state[Body] = "success"
                 /\ state["_promote_success"] \in {"success", "failure"}
  <2>1. ~UnlockDue BY <1>8 DEF UnlockDue
  <2>2. state["_fleet_stop"] = "success" BY <1>2, <1>8
  <2>3. \A g \in Header : state[g] \notin {"queued", "retrying", "running"}
    BY <1>3, <1>8 DEF Ready, Failed
  <2>4. state["_promote_success"] \in {"absent", "success", "failure"}
    BY <1>2, <1>8 DEF Begun
  <2> QED BY <1>5, <1>8, <2>1, <2>2, <2>3, <2>4 DEF Settled
<1> QED BY <1>6, <1>7, <1>8, VerdictIs DEF TreeInv

\* When nothing is at work and the verdict is open, a message was dropped.
LEMMA LossBlocks ==
  ASSUME TreeInv, state["_pre_create_undeploy"] = "success",
         Verdict = "not_ready", Settled
  PROVE  \E t \in Pipeline : state[t] = "lost"
<1>1. SUFFICES ASSUME \A t \in Pipeline : state[t] # "lost"
               PROVE  FALSE
  OBVIOUS
<1>2. \A t \in Pipeline \ {Body} :
        state[t] \in {"absent", "success", "failure"}
  BY <1>1, Names DEF TreeInv, TypeOK, Kinds, Settled, Working, Waiting
<1>3. state[Body] \in {"absent", "success", "failure", "chord_error"}
  BY <1>1, Names DEF TreeInv, TypeOK, Kinds, Settled, Working, Waiting
<1>4. (\E h \in Header : Failed(h)) =>
        (CHOOSE h \in Header : Failed(h)) # "not_ready"
  BY Names
<1>5. state["_fleet_stop"] = "success"
  <2>1. state["_fleet_stop"] # "absent" BY DEF TreeInv, Growth, Begun
  <2>2. state["_fleet_stop"] # "failure" BY VerdictIs, Names DEF TreeInv
  <2> QED BY <1>2, <2>1, <2>2, Names DEF Body
<1>6. state["_deploy_all"] = "success"
  <2>1. state["_deploy_all"] # "absent" BY <1>5 DEF TreeInv, Growth
  <2>2. state["_deploy_all"] # "failure" BY VerdictIs, Names DEF TreeInv
  <2> QED BY <1>2, <2>1, <2>2, Names DEF Body
<1>7. \A h \in Header : Ready(h)
  <2>1. \A h \in Header : state[h] # "absent"
    BY <1>6 DEF TreeInv, Growth, Begun
  <2> QED BY <1>2, <2>1, Names DEF Ready, Failed
<1>8. state[Body] # "absent" BY <1>7 DEF Settled, UnlockDue
<1>9. state[Body] = "success"
  BY <1>3, <1>4, <1>5, <1>6, <1>8, VerdictIs, Names DEF TreeInv
<1>10. state["_promote_success"] \in {"success", "failure"}
  <2>1. state["_promote_success"] # "absent"
    BY <1>9 DEF TreeInv, Growth, Begun
  <2> QED BY <1>2, <2>1, Names DEF Body
<1> QED BY <1>5, <1>6, <1>9, <1>10, VerdictIs, Names DEF TreeInv

-----------------------------------------------------------------------------
(* Its parts are kept.                                                     *)

\* What only moves tasks other than async_wait keeps the verdict.
LEMMA VerdictKept ==
  ASSUME TypeOK, VerdictInv, raised' = raised,
         state'["async_wait"] = state["async_wait"] \/ ~Ended',
         Ended => \A t \in Pipeline : state'[t] = state[t]
  PROVE  VerdictInv'
<1>1. CASE ~Ended'
  BY <1>1 DEF VerdictInv, VerdictExplained, Ended, Ready, Failed
<1>2. CASE Ended'
  <2>1. state'["async_wait"] = state["async_wait"] BY <1>2
  <2>2. Ended BY <1>2, <2>1 DEF Ended, Ready, Failed
  <2>3. \A t \in Pipeline : state'[t] = state[t] BY <2>2
  <2>4. Settled => Settled'
    BY <2>3, Names DEF Settled, Working, Waiting, UnlockDue, Ready, Failed
  <2>5. VerdictExplained => VerdictExplained'
    BY <2>1, <2>3 DEF VerdictExplained
  <2> QED BY <2>1, <2>2, <2>3, <2>4, <2>5, Names DEF VerdictInv
<1> QED BY <1>1, <1>2

\* Answers stay true as long as results that are ready do not change.
LEMMA AnswersKept ==
  ASSUME AnswerInv, answer' = answer,
         \A t \in Tasks : Ready(t) => state'[t] = state[t]
  PROVE  AnswerInv'
<1>1. \A t \in Spine : Failed(t) => Failed(t)'
  BY Names DEF Ready, Failed
<1>2. state["async_wait"] = "success" => state'["async_wait"] = "success"
  BY Names DEF Ready, Spine
<1> QED BY <1>1, <1>2 DEF AnswerInv

-----------------------------------------------------------------------------
(* One step.                                                               *)

\* It holds when a create is queued.
LEMMA Initially == Init => IInv
<1> SUFFICES ASSUME Init PROVE IInv OBVIOUS
<1> USE DEF Init
<1>1. /\ \A t \in Tasks \ {"create"} : state[t] = "absent"
      /\ state["create"] = "queued"
  BY Names DEF Spine
<1>2. TypeOK BY DEF TypeOK, Clients, NoAnswer
<1>3. Kinds BY <1>1, Names DEF Kinds, Spine
<1>4. Growth BY <1>1, Names DEF Growth, Begun, Spine
<1>5. BodyAfterHeader BY <1>1, Names DEF BodyAfterHeader, Spine
<1>6. VerdictInv
  BY <1>1, Names DEF VerdictInv, VerdictExplained, Ended, Ready, Failed, Spine
<1>7. AnswerInv BY DEF AnswerInv, Clients, NoAnswer, None
<1> QED BY <1>2, <1>3, <1>4, <1>5, <1>6, <1>7 DEF IInv

\* The steps of tasks other than async_wait.
LEMMA TasksStep ==
  ASSUME IInv, NEW t \in Tasks, TaskStep(t)
  PROVE  IInv'
<1>1. TreeInv /\ VerdictInv /\ AnswerInv BY DEF IInv, TreeInv
<1>2. UNCHANGED <<raised, request, answer>>
  BY DEF TaskStep, Begin, End, Fail
<1>3. /\ States'
      /\ Kinds' /\ Growth' /\ BodyAfterHeader'
      /\ \A u \in Tasks : Ready(u) => state'[u] = state[u]
  <2>1. CASE Begin(t) BY <1>1, <2>1, TaskBegins DEF Ready, Failed
  <2>2. CASE End(t) BY <1>1, <2>2, TaskEnds DEF Ready, Failed
  <2>3. CASE Fail(t)
    <3>1. Waiting(t) /\ Becomes({t}, "failure") BY <2>3 DEF Fail
    <3>2. \A u \in Tasks : Ready(u) => state'[u] = state[u]
      BY <3>1 DEF Becomes, Waiting, Ready, Failed
    <3> QED BY <1>1, <3>1, <3>2, Alone
  <2> QED BY <2>1, <2>2, <2>3 DEF TaskStep
<1>4. TypeOK' BY <1>1, <1>2, <1>3 DEF TreeInv, TypeOK, States
<1>5. state'["async_wait"] = state["async_wait"] \/ ~Ended'
  <2>1. CASE Begin(t) BY <2>1, Order, Names DEF Begin, Spine
  <2>2. CASE End(t)
    <3>1. t # "async_wait" BY <1>1, <2>2, Names DEF End, TreeInv, Kinds
    <3>2. state'["async_wait"] \in {state["async_wait"], "queued"}
      BY <2>2, <3>1, Names DEF End, Spine
    <3> QED BY <3>2 DEF Ended, Ready, Failed
  <2>3. CASE Fail(t) BY <2>3, Names DEF Fail, Becomes, Spine
  <2> QED BY <2>1, <2>2, <2>3 DEF TaskStep
<1>6. ASSUME Ended PROVE \A u \in Pipeline : state'[u] = state[u]
  <2>1. Settled BY <1>1, <1>6 DEF VerdictInv
  <2>2. state["_pre_create_undeploy"] = "success"
    BY <1>1, <1>6 DEF Ended, Ready, Failed, TreeInv, Growth
  <2>3. Waiting(t) \/ state[t] = "running"
    BY DEF TaskStep, Begin, End, Fail
  <2>4. t \notin Pipeline /\ t # "_pre_create_undeploy"
    BY <2>1, <2>2, <2>3 DEF Settled, Working, Waiting
  <2>5. \A u \in Pipeline : u # t /\ u \notin Starts(t) /\ Parent[u] # t
    BY <2>4, Order, Names DEF Spine, Body
  <2> QED BY <2>5, Names DEF TaskStep, Begin, End, Fail, Becomes
<1>7. VerdictInv'
  BY <1>1, <1>2, <1>5, <1>6, VerdictKept DEF TreeInv
<1>8. AnswerInv' BY <1>1, <1>2, <1>3, AnswersKept
<1> QED BY <1>3, <1>4, <1>7, <1>8 DEF IInv

\* A message is dropped, or _using_lock is retried.
LEMMA MessagesStep ==
  ASSUME IInv, Retry \/ \E t \in Tasks : Drop(t)
  PROVE  IInv'
<1>1. TreeInv /\ VerdictInv /\ AnswerInv BY DEF IInv, TreeInv
<1>2. UNCHANGED <<raised, request, answer>> BY DEF Retry, Drop
<1>3. PICK t \in Tasks, new \in {"lost", "retrying"} :
        /\ Waiting(t) /\ Becomes({t}, new)
        /\ new = "retrying" => t = "_using_lock"
  BY Names DEF Retry, Drop, Waiting, Spine
<1>4. /\ States'
      /\ Kinds' /\ Growth' /\ BodyAfterHeader'
  BY <1>1, <1>3, Alone
<1>5. \A u \in Tasks : Ready(u) => state'[u] = state[u]
  BY <1>3 DEF Becomes, Waiting, Ready, Failed
<1>6. TypeOK' BY <1>1, <1>2, <1>4 DEF TreeInv, TypeOK, States
<1>7. state'["async_wait"] = state["async_wait"] \/ ~Ended'
  BY <1>3, Names DEF Becomes, Ended, Ready, Failed, Spine
<1>8. ASSUME Ended PROVE \A u \in Pipeline : state'[u] = state[u]
  <2>1. t \notin Pipeline
    BY <1>1, <1>3, <1>8 DEF VerdictInv, Settled, Working
  <2> QED BY <1>3, <2>1, Names DEF Becomes
<1>9. VerdictInv' BY <1>1, <1>2, <1>7, <1>8, VerdictKept DEF TreeInv
<1>10. AnswerInv' BY <1>1, <1>2, <1>5, AnswersKept
<1> QED BY <1>4, <1>6, <1>9, <1>10 DEF IInv

\* chord_unlock: async_wait has not ended, as the chord was due.
LEMMA ChordStep ==
  ASSUME IInv, UnlockChord
  PROVE  IInv'
<1>1. TreeInv /\ VerdictInv /\ AnswerInv BY DEF IInv, TreeInv
<1>2. UNCHANGED <<raised, request, answer>> BY DEF UnlockChord
<1>3. /\ States'
      /\ Kinds' /\ Growth' /\ BodyAfterHeader'
  BY <1>1, ChordUnlocked
<1>4. \A u \in Tasks : Ready(u) => state'[u] = state[u]
  BY DEF UnlockChord, Becomes, Ready, Failed
<1>5. TypeOK' BY <1>1, <1>2, <1>3 DEF TreeInv, TypeOK, States
<1>6. ~Ended BY <1>1 DEF VerdictInv, Settled, UnlockDue, UnlockChord
<1>7. state'["async_wait"] = state["async_wait"]
  BY Names DEF UnlockChord, Becomes, Body, Spine
<1>8. VerdictInv' BY <1>1, <1>2, <1>6, <1>7, VerdictKept DEF TreeInv
<1>9. AnswerInv' BY <1>1, <1>2, <1>4, AnswersKept
<1> QED BY <1>3, <1>5, <1>8, <1>9 DEF IInv

\* The steps of async_wait.
LEMMA WaitsStep ==
  ASSUME IInv, WaitStep
  PROVE  IInv'
<1>1. TreeInv /\ VerdictInv /\ AnswerInv BY DEF IInv, TreeInv
<1>2. UNCHANGED <<request, answer>>
  BY DEF WaitStep, WaitRetries, WaitEnds, WaitExhausted
<1>3. Waiting("async_wait")
  BY DEF WaitStep, WaitRetries, WaitEnds, WaitExhausted, Waiting
<1>4. PICK new \in {"retrying", "success", "failure"} :
        Becomes({"async_wait"}, new)
  BY DEF WaitStep, WaitRetries, WaitEnds, WaitExhausted
<1>5. /\ States'
      /\ Kinds' /\ Growth' /\ BodyAfterHeader'
  BY <1>1, <1>3, <1>4, Alone, Names DEF Spine
<1>6. /\ \A u \in Tasks : Ready(u) => state'[u] = state[u]
      /\ \A u \in Pipeline : state'[u] = state[u]
      /\ state'["async_wait"] = new
  BY <1>3, <1>4, Names DEF Becomes, Waiting, Ready, Failed, Spine
<1>7. state["_pre_create_undeploy"] = "success"
  BY <1>1, <1>3 DEF TreeInv, Growth, Waiting
<1>8. Settled => Settled'
  BY <1>6, Names DEF Settled, Working, Waiting, UnlockDue, Ready, Failed
<1>9. AnswerInv' BY <1>1, <1>2, <1>6, AnswersKept
<1>10. ASSUME WaitRetries PROVE TypeOK' /\ VerdictInv'
  <2>1. raised' = raised /\ new = "retrying"
    BY <1>6, <1>10, Names DEF WaitRetries, Becomes, Spine
  <2>2. TypeOK' BY <1>1, <1>2, <1>5, <2>1 DEF TreeInv, TypeOK, States
  <2>3. ~Ended' BY <1>6, <2>1 DEF Ended, Ready, Failed
  <2>4. ~Ended BY <1>3 DEF Ended, Ready, Failed, Waiting
  <2> QED BY <1>1, <2>1, <2>2, <2>3, <2>4, VerdictKept DEF TreeInv
<1>11. ASSUME WaitEnds PROVE TypeOK' /\ VerdictInv'
  <2>1. Verdict # "not_ready" BY <1>11 DEF WaitEnds
  <2>2. Settled' BY <1>1, <1>7, <1>8, <2>1, VerdictSettles
  <2>3. CASE Verdict = "value"
    <3>1. raised' = raised /\ new = "success"
      BY <1>6, <1>11, <2>3, Names DEF WaitEnds, Becomes, Spine
    <3>2. TypeOK' BY <1>1, <1>2, <1>5, <3>1 DEF TreeInv, TypeOK, States
    <3>3. \/ state'["_promote_success"] = "success"
          \/ state'[Body] = "chord_error" /\ ChordBreaks
      BY <1>1, <1>6, <2>3, ValueMeansDone, Names
    <3> QED
      BY <1>6, <2>2, <3>1, <3>2, <3>3 DEF VerdictInv, VerdictExplained
  <2>4. CASE Verdict # "value"
    <3>1. Verdict \in Pipeline /\ state[Verdict] = "failure"
      BY <1>1, <2>1, <2>4, VerdictBlames
    <3>2. raised' = Verdict /\ new = "failure"
      BY <1>6, <1>11, <2>4, Names DEF WaitEnds, Becomes, Spine
    <3>3. TypeOK' BY <1>1, <1>2, <1>5, <3>1, <3>2 DEF TreeInv, TypeOK, States
    <3>4. raised' \in Pipeline /\ state'[raised'] = "failure"
      BY <1>6, <3>1, <3>2
    <3> QED
      BY <1>6, <2>2, <3>2, <3>3, <3>4 DEF VerdictInv, VerdictExplained
  <2> QED BY <2>3, <2>4
<1>12. ASSUME WaitExhausted PROVE TypeOK' /\ VerdictInv'
  <2>1. raised' = "not_ready" /\ new = "failure"
    BY <1>6, <1>12, Names DEF WaitExhausted, Becomes, Spine
  <2>2. Settled BY <1>12 DEF WaitExhausted, Settled
  <2>3. \E t \in Pipeline : state[t] = "lost"
    BY <1>1, <1>7, <1>12, <2>2, LossBlocks DEF WaitExhausted
  <2>4. \E t \in Pipeline : state'[t] = "lost" BY <1>6, <2>3
  <2>5. TypeOK' BY <1>1, <1>2, <1>5, <2>1 DEF TreeInv, TypeOK, States
  <2> QED
    BY <1>6, <1>8, <2>1, <2>2, <2>4, <2>5 DEF VerdictInv, VerdictExplained
<1> QED BY <1>5, <1>9, <1>10, <1>11, <1>12 DEF WaitStep, IInv

\* The steps of requests, which change no task.
LEMMA RequestsStep ==
  ASSUME IInv, StatusStep \/ WaitingRequestStep
  PROVE  IInv'
<1>1. TreeInv /\ VerdictInv /\ AnswerInv BY DEF IInv, TreeInv
<1>2. UNCHANGED <<state, raised>>
  BY DEF StatusStep, WaitingRequestStep, Ask, Find, FollowForStatus,
         FollowToEnd, TimesOut, AskAgain
<1>3. Kinds' /\ Growth' /\ BodyAfterHeader'
  BY <1>1, <1>2 DEF TreeInv, Kinds, Growth, Begun, BodyAfterHeader, Ready, Failed
<1>4. VerdictInv' BY <1>1, <1>2, VerdictKept DEF TreeInv, Ended, Ready, Failed
<1>5. ASSUME NEW c \in Clients,
             NEW status \in {"PENDING", "FAILURE", "READY", "raised"},
             NEW output \in {None, "value", "error"}, Reply(c, status, output),
             output = "error" => \E t \in Spine : Failed(t),
             output = "value" => state["async_wait"] = "success"
      PROVE  TypeOK' /\ AnswerInv'
  <2>1. TypeOK' BY <1>1, <1>2, <1>5 DEF TreeInv, TypeOK, Reply
  <2>2. \A d \in Clients : answer'[d].output =
                             IF d = c THEN output ELSE answer[d].output
    BY <1>1, <1>5 DEF TreeInv, TypeOK, Reply
  <2>3. \A t \in Spine : Failed(t)' <=> Failed(t) BY <1>2 DEF Failed
  <2> QED BY <1>1, <1>2, <1>5, <2>1, <2>2, <2>3 DEF AnswerInv
<1>6. ASSUME UNCHANGED answer,
             request' \in [Clients -> {"idle", "find", "follow", "answered"}]
      PROVE  TypeOK' /\ AnswerInv'
  <2>1. TypeOK' BY <1>1, <1>2, <1>6 DEF TreeInv, TypeOK, States
  <2> QED BY <1>1, <1>2, <1>6, <2>1, AnswersKept
<1>7. request \in [Clients -> {"idle", "find", "follow", "answered"}]
  BY <1>1 DEF TreeInv, TypeOK
<1>8. "status" \in Clients /\ "wait" \in Clients BY DEF Clients
<1>9. ASSUME NEW c \in Clients, Ask(c) PROVE TypeOK' /\ AnswerInv'
  BY <1>6, <1>7, <1>9 DEF Ask
<1>10. ASSUME NEW c \in Clients, Find(c) PROVE TypeOK' /\ AnswerInv'
  <2>1. CASE FindErrorTask("create") = None
    BY <1>6, <1>7, <1>10, <2>1 DEF Find
  <2>2. CASE FindErrorTask("create") # None
    <3>1. \E t \in Spine : Failed(t) BY <2>2, FoundFailed
    <3>2. Reply(c, "raised", None) \/ Reply(c, "FAILURE", "error")
      BY <1>10, <2>2 DEF Find, Raise
    <3> QED BY <1>5, <3>1, <3>2, Names DEF None
  <2> QED BY <2>1, <2>2
<1>11. ASSUME FollowForStatus PROVE TypeOK' /\ AnswerInv'
  <2>1. CASE Follow["create"] \in {"value", "error"}
    BY <1>5, <1>8, <1>11, <2>1, Followed DEF FollowForStatus
  <2>2. CASE Follow["create"] \notin {"value", "error"}
    BY <1>5, <1>8, <1>11, <2>2 DEF FollowForStatus, None
  <2> QED BY <2>1, <2>2
<1>12. ASSUME FollowToEnd PROVE TypeOK' /\ AnswerInv'
  BY <1>5, <1>8, <1>12, Followed DEF FollowToEnd, Raise, None
<1>13. ASSUME TimesOut PROVE TypeOK' /\ AnswerInv'
  BY <1>5, <1>8, <1>13 DEF TimesOut, Raise, None
<1>14. ASSUME AskAgain PROVE TypeOK' /\ AnswerInv'
  BY <1>6, <1>7, <1>14 DEF AskAgain
<1>15. TypeOK' /\ AnswerInv'
  BY <1>8, <1>9, <1>10, <1>11, <1>12, <1>13, <1>14
     DEF StatusStep, WaitingRequestStep
<1> QED BY <1>3, <1>4, <1>15 DEF IInv

\* Every step keeps the invariant.
LEMMA Step ==
  ASSUME IInv, [Next]_vars
  PROVE  IInv'
<1>1. ASSUME NEW t \in Tasks, TaskStep(t) PROVE IInv' BY <1>1, TasksStep
<1>2. CASE Retry \/ \E t \in Tasks : Drop(t) BY <1>2, MessagesStep
<1>3. CASE UnlockChord BY <1>3, ChordStep
<1>4. CASE WaitStep BY <1>4, WaitsStep
<1>5. CASE StatusStep \/ WaitingRequestStep BY <1>5, RequestsStep
<1>6. CASE UNCHANGED vars
  BY <1>6 DEF vars, IInv, TypeOK, Kinds, Growth, Begun, BodyAfterHeader,
              VerdictInv, VerdictExplained, Ended, Settled, Working, Waiting,
              UnlockDue, AnswerInv, Ready, Failed
<1> QED BY <1>1, <1>2, <1>3, <1>4, <1>5, <1>6 DEF Next

\* It always holds.
LEMMA Invariance == Spec => []IInv
BY Initially, Step, PTL DEF Spec

-----------------------------------------------------------------------------
(* The theorems.                                                           *)

\* The states of results, requests and answers are the ones that are named.
THEOREM TypeCorrect == Spec => []TypeOK
<1>1. IInv => TypeOK BY DEF IInv
<1> QED BY <1>1, Invariance, PTL

\* The callbacks start only when nothing of the pipeline is at work or will be,
\* whatever fails, is dropped, or goes wrong with the chord.
THEOREM VerdictIsLate == Spec => []NoEarlyVerdict
<1>1. IInv => NoEarlyVerdict
  BY DEF IInv, VerdictInv, NoEarlyVerdict, Settled
<1> QED BY <1>1, Invariance, PTL

\* async_wait succeeds only after _promote_success, if Celery starts the bodies
\* of its chords.
THEOREM SuccessIsEarned ==
  ASSUME ~ChordBreaks
  PROVE  Spec => []SuccessMeansDone
<1>1. IInv => SuccessMeansDone BY DEF IInv, VerdictInv, SuccessMeansDone
<1> QED BY <1>1, Invariance, PTL

\* async_wait blames a task that failed itself, or a message was dropped.
THEOREM FailureIsExplained == Spec => []VerdictExplained
<1>1. IInv => VerdictExplained BY DEF IInv, VerdictInv
<1> QED BY <1>1, Invariance, PTL

\* An answer with a value or with an error is not contradicted later, whatever
\* its status says.
THEOREM AnswersStand == Spec => []AnswerFinal
<1>1. ASSUME IInv PROVE AnswerFinal
  <2>1. ASSUME NEW t \in Spine, Failed(t)
        PROVE  state["async_wait"] # "success" /\ ~Waiting("async_wait")
    BY <1>1, <2>1 DEF IInv, Growth, Begun, Spine, Failed, Waiting
  <2> QED BY <1>1, <2>1 DEF IInv, AnswerInv, AnswerFinal
<1> QED BY <1>1, Invariance, PTL
=============================================================================
