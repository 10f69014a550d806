--------------------------- MODULE MCNotifications ---------------------------
(***************************************************************************)
(* Model checking Notifications: the configurations of the runs.           *)
(***************************************************************************)
EXTENDS Notifications, TLC

Setting(enabled, level, addressed) ==
  [enabled |-> enabled, level |-> level, addressed |-> addressed]

\* A chat for failures only; no levels, and a name that no task belongs to; a
\* chat without a url.
Defaults ==
  [n \in Names |-> Setting(n = "slack", LEVEL_FAILED, TRUE)]
Bare ==
  [n \in Names |-> Setting(TRUE, Default, TRUE)]
NoUrl ==
  [n \in Names |-> Setting(TRUE, LEVEL_PENDING, n # "slack")]
Configured == {Defaults, Bare, NoUrl}
=============================================================================
