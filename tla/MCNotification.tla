---------------------------- MODULE MCNotification ----------------------------
(* Instances of Notification for TLC: email falls back on the inbox and    *)
(* that on the record.                                                     *)
EXTENDS Notification, TLC

CONSTANTS m1, m2, email, inbox, record

AdapterUsed == (email :> "email") @@ (inbox :> "in_app") @@ (record :> "record_only")
FallbackUsed == (email :> inbox) @@ (inbox :> record) @@ (record :> NoChannel)
TargetUsed == (m1 :> email) @@ (m2 :> inbox)
=============================================================================
