------------------------------- MODULE EventBus -----------------------------
(***************************************************************************)
(* The broadcast ring of bus.rs, as its one slow reader, the bridge to the *)
(* webview (bridge.rs), sees it: the events it has not read yet, oldest    *)
(* first.  MessageView and ChatList show what arrives through it.          *)
(***************************************************************************)
EXTENDS Integers, Sequences

CONSTANT Capacity       \* events the ring keeps: 1024 in bus.rs

ASSUME CapacityAssumption == Capacity \in Nat \ {0}

(* broadcast::channel(Capacity): a full ring drops the oldest event, and   *)
(* the reader gets RecvError::Lagged.                                      *)
Kept(events) == IF Len(events) > Capacity THEN Tail(events) ELSE events
=============================================================================
