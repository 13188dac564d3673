------------------------------- MODULE Feeds -------------------------------
(***************************************************************************)
(* The CVE feeds, the update button and the settings row side by side.     *)
(* They share no variable: each module keeps its own next-state relation,  *)
(* and the system is their conjunction.                                    *)
(***************************************************************************)
EXTENDS NvdFeeds, SelfUpdate, AppSettings

JobsSpec == FeedsSpec /\ UpdateSpec /\ SettingsSpec

----------------------------------------------------------------------------
\* The states of the feeds, of the update button and of the settings row are what they should be:
\* backfills exclude each other and a busy progress hash has its cause, and the copies the web
\* process keeps of settings follow the row.
FeedsInv == BackfillInv /\ UpdateTypeOK /\ SettingsTypeOK /\ CacheTrue

=============================================================================
