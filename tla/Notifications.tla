---------------------------- MODULE Notifications ----------------------------
(***************************************************************************)
(* The notices of a deployment (tasks/notification.py) and the places in   *)
(* create, _promote_success and _deployment_error_event that send them:    *)
(* each queues the task notify, which queues a task for every notifier     *)
(* that is enabled for its level, which posts to a chat or to GitHub.      *)
(*                                                                         *)
(* A celery task that dies before it acknowledged its message is run       *)
(* again, and workers take messages in any order; copies of a message are  *)
(* one, as a message may be worked on repeatedly anyhow.  The pipeline     *)
(* between create and its end is left out; DeploymentPipeline has it.      *)
(***************************************************************************)
EXTENDS AnnouncedStates

CONSTANTS
  Names,        \* the names of notifiers that configurations use
  Settings      \* the configurations of notifiers, of SettingsType

Default == 0  \* a configuration without a level

\* A notifier that is not addressed has no url (slack), or the deployment no
\* commit on GitHub.
SettingsType ==
  [Names -> [enabled : BOOLEAN, level : Default .. LEVEL_PENDING,
             addressed : BOOLEAN]]

ASSUME SettingsAssumption == Settings \subseteq SettingsType

VARIABLES
  settings,   \* the notifiers of each deployment
  stage,      \* where each create or pipeline is
  queue,      \* messages of notify and of the tasks of the notifiers
  sent,       \* notices that a service received
  refused     \* notices that a service did not accept; they are not retried

vars == <<settings, stage, doc, announced, queue, sent, refused>>
mail == <<queue, sent, refused>>

\* The tasks notify_hipchat, notify_slack and notify_github.
Notifiers == {"hipchat", "slack", "github"}

Notices == Deployments \X {LEVEL_FAILED, LEVEL_SUCCESS, LEVEL_STARTED}
Posts == Notifiers \X Notices

Stages ==
  {"new", "refused", "working", "silent", "stored", "done", "failing", "told",
   "failed", "lost"}

TypeOK ==
  /\ settings \in [Deployments -> Settings]
  /\ stage \in [Deployments -> Stages]
  /\ doc \in [Deployments -> {"ABSENT", "NEW", "PROMOTED", "FAILED"}]
  /\ announced \subseteq Notices
  /\ queue \subseteq ({"notify"} \X Notices) \cup Posts
  /\ sent \subseteq Posts /\ refused \subseteq Posts

Init ==
  /\ settings \in [Deployments -> Settings]
  /\ stage = [d \in Deployments |-> "new"]
  /\ doc = [d \in Deployments |-> "ABSENT"]
  /\ announced = {} /\ queue = {} /\ sent = {} /\ refused = {}

-----------------------------------------------------------------------------
(* The tasks of a deployment.                                              *)

Goto(d, next) == stage' = [stage EXCEPT ![d] = next]
Store(d, state) == doc' = [doc EXCEPT ![d] = state]

\* notification.notify.si(...).delay()
Announce(d, level) ==
  /\ announced' = announced \cup {<<d, level>>}
  /\ queue' = queue \cup {<<"notify", <<d, level>>>>}

\* create announces the deployment before it stores it; in between it may be
\* killed, and run again, or fail.
Create(d) ==
  /\ stage[d] = "new"
  /\ Announce(d, LEVEL_STARTED)
  /\ \/ Store(d, "NEW") /\ Goto(d, "working")
     \/ UNCHANGED <<doc, stage>>
     \/ UNCHANGED doc /\ Goto(d, "refused")
  /\ UNCHANGED <<settings, sent, refused>>

\* The deployment ends without a word: _using_lock gives up, or the app
\* template is disabled.
Silence(d) ==
  /\ stage[d] = "working" /\ doc[d] = "NEW"
  /\ Goto(d, "silent")
  /\ UNCHANGED <<settings, doc, announced, mail>>

\* _promote_success stores the state, then announces it.
Mutant_AnnouncesFirst(d) ==
  /\ stage[d] = "working"
  /\ Announce(d, LEVEL_SUCCESS)
  /\ Goto(d, "stored")
  /\ UNCHANGED <<settings, doc, sent, refused>>
Promote(d) ==
  /\ stage[d] = "working"
  /\ Store(d, "PROMOTED")
  /\ Goto(d, "stored")
  /\ UNCHANGED <<settings, announced, mail>>

\* Killed before it is acknowledged, it runs again.
TellSuccess(d) ==
  /\ stage[d] = "stored"
  /\ Announce(d, LEVEL_SUCCESS)
  /\ Goto(d, "done") \/ Goto(d, "working")
  /\ UNCHANGED <<settings, doc, sent, refused>>

\* A task of the pipeline fails, _promote_success included.
Fail(d) ==
  /\ stage[d] \in {"working", "stored"}
  /\ Goto(d, "failing")
  /\ UNCHANGED <<settings, doc, announced, mail>>

\* _deployment_error_event announces the failure, then stores it.
Mutant_StoresOnly(d) ==
  /\ stage[d] = "failing"
  /\ Goto(d, "told")
  /\ UNCHANGED <<settings, doc, announced, mail>>
TellFailure(d) ==
  /\ stage[d] = "failing"
  /\ Announce(d, LEVEL_FAILED)
  /\ Goto(d, "told")
  /\ UNCHANGED <<settings, doc, sent, refused>>

StoreFailure(d) ==
  /\ stage[d] = "told"
  /\ Store(d, "FAILED")
  /\ Goto(d, "failed") \/ Goto(d, "failing")
  /\ UNCHANGED <<settings, announced, mail>>

\* A task that was killed half-way runs again from its start.
Redeliver(d) ==
  /\ \/ stage[d] = "stored" /\ Goto(d, "working")
     \/ stage[d] = "told" /\ Goto(d, "failing")
  /\ UNCHANGED <<settings, doc, announced, mail>>

\* _deployment_error_event itself fails for good.
CallbackFails(d) ==
  /\ stage[d] \in {"failing", "told"}
  /\ Goto(d, "lost")
  /\ UNCHANGED <<settings, doc, announced, mail>>

-----------------------------------------------------------------------------
(* notify and the notifiers.                                               *)

Level(setting) ==
  IF setting.level = Default THEN LEVEL_FAILED ELSE setting.level

\* The notifiers that hear of a level.
Mutant_BelowLevel(d, level) ==
  {n \in Names \cap Notifiers :
     settings[d][n].enabled /\ level < Level(settings[d][n])}
Enabled(d, level) ==
  {n \in Names \cap Notifiers :
     settings[d][n].enabled /\ level <= Level(settings[d][n])}

\* The message is acknowledged, or the worker dies before and it is redelivered.
Taken(message, queued) == queue' = queued \ {message} \/ queue' = queued

Notify(d, level) ==
  LET message == <<"notify", <<d, level>>>>
  IN  /\ message \in queue
      /\ Taken(message, queue \cup (Enabled(d, level) \X {<<d, level>>}))
      /\ UNCHANGED <<settings, stage, doc, announced, sent, refused>>

\* notify_hipchat, notify_slack and notify_github.
Post(n, d, level) ==
  LET post == <<n, <<d, level>>>>
  IN  /\ post \in queue
      /\ sent' = IF settings[d][n].addressed THEN sent \cup {post} ELSE sent
      /\ Taken(post, queue)
      /\ UNCHANGED <<settings, stage, doc, announced, refused>>

\* decrypt_config, the template or the request raises an error; the notifiers
\* have no retries.
PostFails(n, d, level) ==
  LET post == <<n, <<d, level>>>>
  IN  /\ post \in queue
      /\ refused' = refused \cup {post}
      /\ Taken(post, queue)
      /\ UNCHANGED <<settings, stage, doc, announced, sent>>

TaskStep(d) ==
  \/ Create(d) \/ Silence(d) \/ Promote(d) \/ TellSuccess(d) \/ Fail(d)
  \/ TellFailure(d) \/ StoreFailure(d) \/ Redeliver(d) \/ CallbackFails(d)

MailStep(d, level) ==
  \/ Notify(d, level)
  \/ \E n \in Names : Post(n, d, level) \/ PostFails(n, d, level)

Next ==
  \E d \in Deployments :
    \/ TaskStep(d)
    \/ \E level \in {LEVEL_FAILED, LEVEL_SUCCESS, LEVEL_STARTED} :
         MailStep(d, level)

Spec == Init /\ [][Next]_vars

\* A message is not redelivered for ever.
Fairness ==
  \A notice \in Notices :
    /\ SF_vars(/\ Notify(notice[1], notice[2])
               /\ <<"notify", notice>> \notin queue')
    /\ \A n \in Names \cap Notifiers :
         SF_vars(/\ \/ Post(n, notice[1], notice[2])
                    \/ PostFails(n, notice[1], notice[2])
                 /\ <<n, notice>> \notin queue')

FairSpec == Spec /\ Fairness

-----------------------------------------------------------------------------
(* A property, besides those of AnnouncedStates.                           *)

\* Every enabled notifier that can be addressed is told of a failure, whatever
\* its level, or its service did not accept it.
Concerned(d, n) == settings[d][n].enabled /\ settings[d][n].addressed
FailuresHeard ==
  \A d \in Deployments, n \in Names \cap Notifiers :
    doc[d] = "FAILED" /\ Concerned(d, n) ~>
      <<n, <<d, LEVEL_FAILED>>>> \in sent \cup refused
=============================================================================
