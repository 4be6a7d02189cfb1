---------------------------- MODULE MCMailOutbox -----------------------------
(* Small instances of MailOutbox for TLC. *)
EXTENDS MailOutbox

CONSTANTS a, b, c, r1, p1, p2

\* Every call carries the same request id; "b" asks to send something else.
OneRequest == [m \in Mail |-> r1]
MixedContent == [m \in Mail |-> IF m = b THEN p2 ELSE p1]

\* Every call is a request of its own: the mail is its own request id.
OwnRequest == [m \in Mail |-> m]
SameContent == [m \in Mail |-> p1]
==============================================================================
