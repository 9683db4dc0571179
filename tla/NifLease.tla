------------------------------ MODULE NifLease ------------------------------
(***************************************************************************)
(* What one AGPS network interface (NIF) promises to the clients on its    *)
(* list, with no trace of how AgpsStateMachine keeps the promise.          *)
(*                                                                         *)
(* The interface is leased to a whole group of clients or to none:         *)
(*   - a client that asks waits with the others while the interface is     *)
(*     free, and joins the holders at once while it is held;               *)
(*   - everyone who waits is granted in the same step;                     *)
(*   - when the lease ends all holders lose it in the same step, and it    *)
(*     takes a new grant to have it again;                                 *)
(*   - a client may leave at any time, be refused, or be dropped by a      *)
(*     restart or by being taken for another, and the lease goes on.       *)
(***************************************************************************)
CONSTANT Clients

VARIABLES lease,     \* "free" or "held"
          waiting,   \* the clients that asked and have no answer yet
          holders    \* the clients that were told they have the interface

vars == <<lease, waiting, holders>>

Init == lease = "free" /\ waiting = {} /\ holders = {}

Ask(c) ==
  /\ lease = "free"
  /\ c \notin waiting
  /\ waiting' = waiting \cup {c}
  /\ UNCHANGED <<lease, holders>>

Join(c) ==
  /\ lease = "held"
  /\ c \notin holders
  /\ holders' = holders \cup {c}
  /\ UNCHANGED <<lease, waiting>>

GrantAll ==
  /\ lease = "free"
  /\ lease' = "held"
  /\ holders' = waiting
  /\ waiting' = {}

End ==
  /\ lease = "held"
  /\ lease' = "free"
  /\ holders' = {}
  /\ UNCHANGED waiting

Leave(S) ==
  /\ S # {}
  /\ waiting' = waiting \ S
  /\ holders' = holders \ S
  /\ UNCHANGED lease

Next ==
  \/ \E c \in Clients : Ask(c) \/ Join(c)
  \/ GrantAll
  \/ End
  \/ \E S \in SUBSET (waiting \cup holders) : Leave(S)

Spec == Init /\ [][Next]_vars
=============================================================================
