----------------------------- MODULE MCHostLink -----------------------------
(***************************************************************************)
(* HostLink with three programs, one after the other, of a few calls each. *)
(***************************************************************************)
EXTENDS HostLink

Calls == <<2, 3, 2>>
LinkTags == {t \in [session : 1 .. 3, seq : 1 .. 3] : t.seq <= Calls[t.session]}
=============================================================================
