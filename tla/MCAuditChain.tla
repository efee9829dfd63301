---------------------------- MODULE MCAuditChain ----------------------------
\* Two transactions at a time, three rows in all.
EXTENDS AuditChain
=============================================================================
