----------------------------- MODULE MCAuditLog -----------------------------
(* AuditLog on a small instance: two payloads, so that an edited row differs *)
(* from the original, and logs long enough for a prefix and a suffix.        *)
EXTENDS AuditLog
=============================================================================
