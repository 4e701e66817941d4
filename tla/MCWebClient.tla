---------------------------- MODULE MCWebClient ----------------------------
(* Two messages of the same second, one of them in an own and in a shared    *)
(* mailbox, in pages of one row; every page of the console with two rows.    *)
EXTENDS WebClient, TLC

CONSTANTS own, shared, r1, r2

MCCreated == <<1, 1>>
MCTo == <<{own, shared}, {own}>>
MCViews == {[mailbox |-> own, starred |-> FALSE], [mailbox |-> own, starred |-> TRUE],
            [mailbox |-> shared, starred |-> FALSE]}
MCResources == {"users", "roles", "domains", "provider-connections", "settings",
                "signatures", "access"}
=============================================================================
