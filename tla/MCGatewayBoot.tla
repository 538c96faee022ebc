--------------------------- MODULE MCGatewayBoot ---------------------------
(***************************************************************************)
(* Instance of GatewayBoot for TLC: a tarball, deno and agent-reach, two   *)
(* slots, two boots of two releases.  GatewayBoot.cfg: mise ships the      *)
(* tarball too, its URL names no release, and there is one repository;     *)
(* GatewayBootReleases.cfg: mise does not, the release is in the URL, and  *)
(* there are two repositories.                                             *)
(***************************************************************************)
EXTENDS GatewayBoot

MCReleases == {1, 2}
=============================================================================
