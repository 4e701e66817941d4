--------------------------- MODULE MCAttachments ---------------------------
(* Two bodies with one digest, as if md5 collided.  Mail and legacy object   *)
(* hold the first, the upload may hold either.                               *)
EXTENDS Attachments, TLC

CONSTANTS a, b, u1, e1, q1, q2

MCSource == (q1 :> u1) @@ (q2 :> e1)
MCBody == [s \in Mails \cup Legacy |-> a]
MCDigest == [c \in Contents |-> "md5"]
=============================================================================
