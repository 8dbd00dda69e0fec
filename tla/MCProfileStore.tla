--------------------------- MODULE MCProfileStore ---------------------------
(***************************************************************************)
(* Two calls at a time of the profile list, over a store with a profile of *)
(* a subscription (2) and one without a group (1), and a backup made when  *)
(* there was a profile more.                                               *)
(***************************************************************************)
EXTENDS ProfileStore

Of(g, who) == [gid |-> g, by |-> who]

MCStored == [NoProfile EXCEPT ![1] = Of(0, "old"), ![2] = Of(1, "old")]
MCBackup == [NoProfile EXCEPT ![1] = Of(0, "restore"), ![3] = Of(1, "restore")]

=============================================================================
