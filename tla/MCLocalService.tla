--------------------------- MODULE MCLocalService ---------------------------
(* LocalService on a small instance: one source, two requests that switch the *)
(* monitor, and a command, while the service is started twice.                *)
EXTENDS LocalService
=============================================================================
