---------------------------- MODULE AuthCodeFlow ----------------------------
(***************************************************************************)
(* What the OAuth broker promises an MCP client, whatever the upstream     *)
(* does and however browser messages are lost, repeated or delayed: a      *)
(* login is taken upstream only after the broker accepted it, the user's   *)
(* approval of a login reaches the client that asked for it and no other,  *)
(* and tokens are handed only to a client that redeemed its own approval.  *)
(***************************************************************************)
CONSTANT Flows      \* logins: one MCP client process asking once

VARIABLES
  asked,            \* logins the broker sent on to the upstream
  approved,         \* logins the upstream's user approved
  delivered,        \* logins whose approval reached the asking client
  redeemed,         \* logins whose approval was exchanged upstream
  granted           \* logins whose client holds the tokens

vars == <<asked, approved, delivered, redeemed, granted>>

Init ==
  /\ asked = {} /\ approved = {} /\ delivered = {}
  /\ redeemed = {} /\ granted = {}

Ask(f) ==
  /\ asked' = asked \union {f}
  /\ UNCHANGED <<approved, delivered, redeemed, granted>>

Approve(f) ==
  /\ f \in asked
  /\ approved' = approved \union {f}
  /\ UNCHANGED <<asked, delivered, redeemed, granted>>

Deliver(f) ==
  /\ f \in approved
  /\ delivered' = delivered \union {f}
  /\ UNCHANGED <<asked, approved, redeemed, granted>>

Redeem(f) ==
  /\ f \in delivered
  /\ redeemed' = redeemed \union {f}
  /\ UNCHANGED <<asked, approved, delivered, granted>>

Grant(f) ==
  /\ f \in redeemed
  /\ granted' = granted \union {f}
  /\ UNCHANGED <<asked, approved, delivered, redeemed>>

Next ==
  \E f \in Flows :
    Ask(f) \/ Approve(f) \/ Deliver(f) \/ Redeem(f) \/ Grant(f)

Spec == Init /\ [][Next]_vars
=============================================================================
