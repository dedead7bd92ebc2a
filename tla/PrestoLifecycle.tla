---------------------------- MODULE PrestoLifecycle ----------------------------
(***************************************************************************)
(* What the reconciliation loop promises about the dependents of one      *)
(* Presto record (spec sections 3 and 4), with caches, queues, errors and *)
(* restarts left out: the record is given a cluster uuid once, and after  *)
(* that the dependents appear one at a time in dependency order, each     *)
(* only once all those it depends on exist.  The last one, the HPA, may   *)
(* also go away again when autoscaling is switched off.                   *)
(***************************************************************************)
EXTENDS Naturals, Sequences

CONSTANTS
    Order,   \* the dependents, in the order they are created
    Uuids,   \* values the cluster uuid can take
    None

VARIABLES
    uuid,    \* the cluster uuid in the status, or None
    made     \* the dependents that exist

lvars == <<uuid, made>>

\* The first n dependents of the order.
Prefix(n) == {Order[i] : i \in 1 .. n}

AssignUuid ==
    /\ uuid = None
    /\ \E u \in Uuids : uuid' = u
    /\ UNCHANGED made

\* The next dependent is created once the uuid it is labelled with exists.
CreateNext ==
    /\ uuid # None
    /\ \E n \in 0 .. Len(Order) - 1 :
         /\ made = Prefix(n)
         /\ made' = Prefix(n + 1)
    /\ UNCHANGED uuid

\* The last dependent is removed again.
RemoveLast ==
    /\ made = Prefix(Len(Order))
    /\ made' = Prefix(Len(Order) - 1)
    /\ UNCHANGED uuid

LInit == uuid = None /\ made = {}

LNext == AssignUuid \/ CreateNext \/ RemoveLast

LSpec == LInit /\ [][LNext]_lvars

=============================================================================
