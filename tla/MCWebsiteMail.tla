---------------------------- MODULE MCWebsiteMail ----------------------------
(* Small instances of WebsiteMail. *)
EXTENDS WebsiteMail, TLC

OneChannel == <<"ownerEmail">>

\* A LINE job waits in the queue before every e-mail job but the first.
TwoChannels == <<"ownerEmail", "ownerLine">>

Runners == Permutations(Runner)
=============================================================================
