----------------------------- MODULE MCWebhook -----------------------------
(* Instance of Webhook: one provider message, two events of one time that   *)
(* differ in rank only, and an older report.                               *)
EXTENDS Webhook

CONSTANTS p1

MCEvents ==
    { [key |-> "k1", about |-> p1, time |-> 2, status |-> "delivered"],
      [key |-> "k2", about |-> p1, time |-> 2, status |-> "bounced"] }

MCReports == { [about |-> p1, time |-> 1, status |-> "delivered"] }

=============================================================================
