----------------------------- MODULE MailPromise -----------------------------
(***************************************************************************)
(* What the mail outbox promises its user, with no database, object store, *)
(* worker or JMAP server in sight.  A message is queued, then either       *)
(* withdrawn by its author or committed to dispatch; a committed message   *)
(* is delivered at most once, and the user is told "sent" only about a     *)
(* message that was delivered.  MailOutbox is shown to implement it.       *)
(***************************************************************************)

EXTENDS Naturals

CONSTANT Mail               \* the messages ever handed to the outbox

VARIABLES stage,            \* what the user may be told about each message
          delivered         \* how often the mail server accepted each of them

promiseVars == <<stage, delivered>>

Stage == {"absent", "queued", "withdrawn", "committed", "refused", "confirmed"}

PromiseTypeOK ==
  /\ stage \in [Mail -> Stage]
  /\ delivered \in [Mail -> {0, 1}]

Advance(m, from, to) ==
  /\ stage[m] = from
  /\ stage' = [stage EXCEPT ![m] = to]

Accept(m)   == Advance(m, "absent", "queued") /\ UNCHANGED delivered
Withdraw(m) == Advance(m, "queued", "withdrawn") /\ UNCHANGED delivered
Commit(m)   == Advance(m, "queued", "committed") /\ UNCHANGED delivered

\* Only a committed message reaches the server, and never a second time.
Deliver(m) ==
  /\ stage[m] = "committed"
  /\ delivered[m] = 0
  /\ delivered' = [delivered EXCEPT ![m] = 1]
  /\ UNCHANGED stage

Confirm(m) ==
  /\ delivered[m] = 1
  /\ Advance(m, "committed", "confirmed")
  /\ UNCHANGED delivered

Refuse(m) ==
  /\ delivered[m] = 0
  /\ Advance(m, "committed", "refused")
  /\ UNCHANGED delivered

PromiseInit ==
  /\ stage = [m \in Mail |-> "absent"]
  /\ delivered = [m \in Mail |-> 0]

PromiseNext ==
  \E m \in Mail : \/ Accept(m)  \/ Withdraw(m) \/ Commit(m)
                  \/ Deliver(m) \/ Confirm(m)  \/ Refuse(m)

PromiseSpec == PromiseInit /\ [][PromiseNext]_promiseVars

==============================================================================
