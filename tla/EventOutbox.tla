----------------------------- MODULE EventOutbox -----------------------------
(***************************************************************************)
(* What the transport promises about the events handed to it, without      *)
(* threads, sockets or attempts: an event is accepted by the daemon's      *)
(* socket at once, or it is held.  At most MaxHeld events are held; the    *)
(* oldest one gives way to a newer one.  Held events are accepted in the   *)
(* order in which they were held, each at most once.                       *)
(***************************************************************************)
EXTENDS Naturals, Sequences

CONSTANTS
  Events,   (* the events handed to the transport                           *)
  MaxHeld   (* how many events are held at most                             *)

VARIABLES
  held,       (* events waiting for another attempt, oldest first           *)
  accepted,   (* events the socket took, in order                           *)
  discarded   (* held events that gave way                                  *)

outboxVars == <<held, accepted, discarded>>

ElementsOf(s) == {s[i] : i \in 1..Len(s)}

Known == ElementsOf(held) \cup ElementsOf(accepted) \cup discarded

OutboxInit ==
  /\ held = <<>>
  /\ accepted = <<>>
  /\ discarded = {}

(* The socket takes a new event.                                           *)
Accept(e) ==
  /\ e \notin Known
  /\ accepted' = Append(accepted, e)
  /\ UNCHANGED <<held, discarded>>

(* A new event is held; the oldest held event gives way to it.             *)
Hold(e) ==
  /\ e \notin Known
  /\ IF Len(held) >= MaxHeld
     THEN /\ held' = Append(Tail(held), e)
          /\ discarded' = discarded \cup {Head(held)}
     ELSE /\ held' = Append(held, e)
          /\ UNCHANGED discarded
  /\ UNCHANGED accepted

(* The socket takes the oldest held event.                                 *)
AcceptHeld ==
  /\ held # <<>>
  /\ accepted' = Append(accepted, Head(held))
  /\ held' = Tail(held)
  /\ UNCHANGED discarded

OutboxNext ==
  \/ \E e \in Events : Accept(e) \/ Hold(e)
  \/ AcceptHeld

OutboxSpec == OutboxInit /\ [][OutboxNext]_outboxVars
=============================================================================
