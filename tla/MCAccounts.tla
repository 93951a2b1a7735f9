----------------------------- MODULE MCAccounts -----------------------------
(* Small instances of Accounts: a few logins, password and role changes.     *)
EXTENDS Accounts, TLC

Login(user, password) == [op |-> "login", ip |-> "ip1", user |-> user, password |-> password]
Role(user, role) == [op |-> "role", user |-> user, role |-> role]
Create2(role) == [op |-> "create", user |-> "bob", role |-> role, password |-> "pw"]
Change(current, new) == [op |-> "password", user |-> "admin", current |-> current, new |-> new]

Ticket == [op |-> "ticket", session |-> None]

\* Logins that succeed and fail, a password change that turns the one into the
\* other, a second super_admin, and role changes.
MCRequests ==
    {Login("admin", "admin"), Login("admin", "pw"), Change("admin", "pw"),
     Ticket, Create2("super_admin"), Role("admin", "read_only"), Role("bob", "read_only")}

Symmetry == Permutations(Tasks)
=============================================================================
