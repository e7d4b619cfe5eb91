------------------------------- MODULE Config -------------------------------
(***************************************************************************)
(* config.Load: which environments are accepted.  An environment is the    *)
(* value of ENVIRONMENT and the set of the other variables that are not    *)
(* empty; variables with a default of their own are left out.              *)
(***************************************************************************)
LinearNames == {"LINEAR_API_KEY", "LINEAR_CLIENT_ID", "LINEAR_CLIENT_SECRET"}
Names == LinearNames \cup
  {"SLACK_BOT_TOKEN", "SLACK_APP_TOKEN", "SLACK_SIGNING_SECRET", "GCP_PROJECT_ID"}

\* "" is an ENVIRONMENT that is not set, "prod" one that Load does not know.
Environ == [environment : {"", "local", "gcp", "prod"}, given : SUBSET Names]

Mode(e) == IF e.environment = "" THEN "local" ELSE e.environment

Required(mode) ==
  {"SLACK_BOT_TOKEN"} \cup
  (IF mode = "gcp" THEN {"SLACK_SIGNING_SECRET", "GCP_PROJECT_ID"}
                   ELSE {"SLACK_APP_TOKEN"})

HasKey(e)          == "LINEAR_API_KEY" \in e.given
HasClientID(e)     == "LINEAR_CLIENT_ID" \in e.given
HasClientSecret(e) == "LINEAR_CLIENT_SECRET" \in e.given

\* Mutant: half of the client credentials is let through.
LoadedByHalf(e) ==
  /\ ~(HasKey(e) /\ (HasClientID(e) \/ HasClientSecret(e)))
  /\ HasKey(e) \/ HasClientID(e)
  /\ Mode(e) \in {"local", "gcp"}
  /\ Required(Mode(e)) \subseteq e.given

\* Load returns no error.
Loaded(e) ==
  /\ ~(HasKey(e) /\ (HasClientID(e) \/ HasClientSecret(e)))
  /\ HasClientID(e) = HasClientSecret(e)
  /\ HasKey(e) \/ HasClientID(e)
  /\ Mode(e) \in {"local", "gcp"}
  /\ Required(Mode(e)) \subseteq e.given

UsesLinearOAuth(e) == HasClientID(e)

\* What newLinearClient hands to the Linear client.
LinearCredentials(e) ==
  IF UsesLinearOAuth(e) THEN {"LINEAR_CLIENT_ID", "LINEAR_CLIENT_SECRET"}
                        ELSE {"LINEAR_API_KEY"}
=============================================================================
