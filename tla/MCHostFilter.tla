---------------------------- MODULE MCHostFilter ----------------------------
(* Small instances of HostFilter for TLC. *)
EXTENDS HostFilter

CONSTANTS ads, tracker, ads_host, shop_host

(* One pattern is a host name, the other a regular expression that covers  *)
(* both names.                                                             *)
MCPatterns == {ads, tracker}
MCNames == {ads_host, shop_host}
MCMatches == {<<ads, ads_host>>, <<tracker, ads_host>>, <<tracker, shop_host>>}
=============================================================================
