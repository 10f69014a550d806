--------------------------- MODULE MCTaskRetries ---------------------------
(***************************************************************************)
(* Model checking TaskRetries: the defaults of conf/appconfig.py and       *)
(* settings of a deployment of its own.                                    *)
(***************************************************************************)
EXTENDS TaskRetries

TenSeconds == [n |-> 10, unit |-> "s"]
UnevenStop == [n |-> 59, unit |-> "s"]

DefaultLimit == [type |-> "int", n |-> 3]
AnyStarted == 0..4
=============================================================================
