------------------------------- MODULE Roles -------------------------------
(***************************************************************************)
(* UserRole, and the groups of roles the routes and the pages name.        *)
(***************************************************************************)

Role == {"ADMIN", "MANAGER", "STAFF", "TECHNICIAN"}

Sellers == {"ADMIN", "MANAGER", "STAFF"}
Repairers == {"ADMIN", "MANAGER", "TECHNICIAN"}
Managers == {"ADMIN", "MANAGER"}
Admins == {"ADMIN"}

=============================================================================
