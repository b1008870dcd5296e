----------------------------- MODULE ServiceDeath -----------------------------
(***************************************************************************)
(* How a listener learns that the system event service died: the stub      *)
(* carries a CallbackDeathRecipient whose OnRemoteDied calls the           *)
(* listener's OnServiceDied.  IPC calls it for the recipients that were    *)
(* added to the remote object; HiSysEventDelegate::AddListener only takes  *)
(* one off.                                                                *)
(***************************************************************************)
EXTENDS ListenerManager

VARIABLES
  recipients,  (* stubs whose death recipient is on the remote object       *)
  notices,     (* stubs whose OnRemoteDied is going to be called            *)
  owed         (* history: listeners whose service died, not yet told       *)

deathVars == <<vars, recipients, notices, owed>>

(* RemoveDeathRecipient, the one call AddListener makes about the death.   *)
AddListenerRecipient(t, l) ==
  /\ AddListener(t, l)
  /\ recipients' = recipients \ {stub'[base'[t]]}
  /\ UNCHANGED <<notices, owed>>

(* The death of the service reaches the recipients on the remote object.   *)
ServiceDiesForRecipients ==
  /\ ServiceDies
  /\ notices' = notices \cup recipients
  /\ recipients' = {}
  /\ owed' = owed \cup {l \in Listeners : said[l] = "added"}
  /\ UNCHANGED managerVars

(* CallbackDeathRecipient::OnRemoteDied, up to the listener.               *)
OnRemoteDied(s) ==
  /\ s \in notices
  /\ notices' = notices \ {s}
  /\ owed' = owed \ {ListenerOf(s)}
  /\ UNCHANGED <<vars, recipients>>

(* The steps of a call that has begun.                                     *)
Proceed(t) == (FinishAdd(t) \/ FinishRemove(t) \/ Ipc(t)) /\ UNCHANGED <<recipients, notices, owed>>

DeathInit == Init /\ recipients = {} /\ notices = {} /\ owed = {}

DeathNext ==
  \/ \E t \in Threads : Proceed(t) \/ \E l \in Listeners : AddListenerRecipient(t, l)
  \/ \E t \in Threads, l \in Listeners :
       (RemoveListener(t, l) \/ RemoveUnknownListener(t, l)) /\ UNCHANGED <<recipients, notices, owed>>
  \/ ServiceDiesForRecipients
  \/ ServiceStarts /\ UNCHANGED <<managerVars, recipients, notices, owed>>
  \/ \E s \in Stubs : OnRemoteDied(s)

(* Calls go on, and IPC calls the recipients it has.                       *)
DeathSpec ==
  /\ DeathInit /\ [][DeathNext]_deathVars
  /\ \A t \in Threads : WF_deathVars(Proceed(t))
  /\ \A s \in Stubs : WF_deathVars(OnRemoteDied(s))
-----------------------------------------------------------------------------
(***************************************************************************)
(* A listener that was added successfully is told when the service dies,   *)
(* so that it can be added again (OnServiceDied of HiSysEventListener).    *)
(***************************************************************************)
DeathIsReported == \A l \in Listeners : l \in owed ~> l \notin owed
=============================================================================
