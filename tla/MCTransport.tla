----------------------------- MODULE MCTransport -----------------------------
(* Transport on a process of three descriptors.                              *)
EXTENDS Transport

\* An explicit choice of epoll differs from io_uring's only in what it opens.
SomePreferences == {"NONE", "IO_URING", "POLL"}
=============================================================================
