------------------------------- MODULE Versions -------------------------------
(***************************************************************************)
(* The versions of envd that matter to the SDK (envd/versions.rs) and what *)
(* hangs on them.  A version x.y.z is the number 100x + 10y + z; a string  *)
(* that is no version is Unparseable.                                      *)
(***************************************************************************)
EXTENDS Integers

Unparseable == -1

ENVD_VERSION_RECURSIVE_WATCH      == 14
ENVD_COMMANDS_STDIN               == 30
ENVD_DEFAULT_USER                 == 40
ENVD_ENVD_CLOSE                   == 52
ENVD_OCTET_STREAM_UPLOAD          == 57
ENVD_FILE_METADATA                == 62
ENVD_VERSION_FS_EVENT_ENTRY_INFO  == 63
ENVD_VERSION_WATCH_NETWORK_MOUNTS == 64

VersionGte(actual, required) == actual # Unparseable /\ actual >= required

\* The user a request names: the caller's, or "user" for an envd that has no
\* default of its own, or nobody (resolve_user, auth_header).
User(version, user) ==
  IF user = "none" /\ ~ VersionGte(version, ENVD_DEFAULT_USER) THEN "user" ELSE user
===============================================================================
