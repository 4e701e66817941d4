-------------------------- MODULE MCAdministration --------------------------
(* Administration on small instances: each behaviour mixes the operations of *)
(* one menu.                                                                 *)
EXTENDS Administration, Sequences, TLC

CONSTANTS root, u1, u2, u3, m1, m2, d1, c1, c2, r1, k1, k2, x0, x1, x2, s1, s2

MCDomainOf == [m \in {m1, m2} |-> d1]

MCSeed ==
    [user     |-> [u \in Users |-> IF u \in {u2, u3} THEN "absent" ELSE "active"],
     role     |-> {r1},
     assigned |-> [u \in Users |-> IF u = u1 THEN {r1} ELSE {}],
     domain   |-> [d \in {d1} |-> [status |-> "active", conn |-> None]],
     mailbox  |-> [m \in {m1, m2} |-> [status |-> "absent", owner |-> None]],
     member   |-> [m \in {m1, m2} |-> [u \in Users |-> None]],
     conn     |-> [c \in Connections |-> IF c = c1 THEN "active" ELSE "absent"],
     secret   |-> [c \in Connections |-> [api |-> x0, hook |-> x0]],
     settings |-> [enabled |-> FALSE, invite |-> TRUE, quota |-> 1],
     used     |-> 0]

R(kind, fields) == Request([kind |-> kind, by |-> root] @@ fields)

Own(u, m) == Request([kind |-> "CreateMailbox", by |-> u, mailbox |-> m])

(* Mailbox creation against the quota, the domain's status and its deletion. *)
MailboxMenu ==
    {Own(root, m1), Own(root, m2),
     Request([kind |-> "RemoveMailbox", by |-> root, mailbox |-> m1]),
     R("UpdateDomain", [domain |-> d1, status |-> "disabled"]),
     R("DeleteDomain", [domain |-> d1])}

(* Sharing a mailbox, by its owner, by a member and by the administrator.    *)
MemberMenu ==
    {Own(u1, m1)}
    \cup {Request([kind |-> "UpsertMember", by |-> b, mailbox |-> m1,
                   user |-> root, role |-> "admin"]) : b \in {u1, root}}
    \cup {Request([kind |-> "RemoveMember", by |-> b, mailbox |-> m1,
                   user |-> root]) : b \in {u1, root}}

AccessMenu ==
    {Own(root, m1),
     R("AddAccess", [user |-> u1, mailbox |-> m1, role |-> "viewer"]),
     R("UpdateAccess", [user |-> u1, mailbox |-> m1, role |-> "admin"]),
     R("RemoveAccess", [user |-> u1, mailbox |-> m1])}

UserMenu ==
    {R("CreateUser", [user |-> u2, roles |-> {r1}]),
     R("UpdateUser", [user |-> u1, status |-> "suspended", roles |-> {r1}]),
     R("DeleteUser", [user |-> u1]), R("DeleteUser", [user |-> root]),
     R("CreateRole", [role |-> r1]), R("DeleteRole", [role |-> r1])}

ConnectionMenu ==
    {R("UpdateConnection", [conn |-> c1, api |-> x1]),
     R("UpdateConnection", [conn |-> c1, hook |-> x2, status |-> "disabled"]),
     R("CreateConnection", [conn |-> c2, api |-> x1, hook |-> x1]),
     R("UpdateDomain", [domain |-> d1, conn |-> c2])}

RegisterMenu ==
    {Request([kind |-> "Register", by |-> u, user |-> u]) : u \in {u2, u3}}
    \cup {R("UpdateSettings", [set |-> << <<"enabled", TRUE>>, <<"invite", TRUE>> >>]),
          R("UpdateSettings", [set |-> << <<"invite", FALSE>>, <<"quota", 2>> >>])}

MCMenus == {MailboxMenu, MemberMenu, AccessMenu, UserMenu, ConnectionMenu, RegisterMenu}

=============================================================================
