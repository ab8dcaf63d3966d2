-------------------------- MODULE MCConfiguration --------------------------
(* A small instance of Configuration: a key of each kind, two directories. *)
EXTENDS Configuration

\* cleanup.mode, email.smtp_port, cleanup.excluded_containers,
\* email.smtp_host, notifications.slack.webhook_url
MCKeys == {"mode", "port", "excluded", "host", "webhook"}
MCDirs == <<"etc", "config">>
=============================================================================
