------------------------ MODULE CliSessionProperties ------------------------
(***************************************************************************)
(* What the CLI's commands over SSH promise, on top of the backend.          *)
(***************************************************************************)
EXTENDS CliSessions, SessionProperties

Requesting == {"send", "waiting", "created"}
Identity   == {"keygen", "authorize", "reauthorize", "start", "inspect", "attach", "shell", "result", "finally"}
Over       == {"ended", "signalled", "cut_short", "killed"}

CliPc == {"idle", "get", "mkdir", "handle", "remove"} \cup Requesting \cup Identity \cup Over

CommandState ==
  [pc : CliPc, session : SessionKeys \cup {None}, devbox : Devboxes \cup {None},
   handler : Handlers \cup {None}, attempt : 1..Attempts, directory : {"none", "empty", "key"},
   handled : BOOLEAN, ordered : BOOLEAN,
   told : {"none", "error", "not_recoverable", "detached", "done"} \cup Outcome]

\* The type invariant of the commands.
CliTypeOK ==
  /\ cli \in [Commands -> CommandState]
  /\ printed \subseteq SessionKeys /\ lost \subseteq SessionKeys
  /\ losses \in 0..MaxLosses

\* A private key lies on the disk only while its command's signal handlers stand guard over it or
\* its removal is under way.  What is left behind is a SIGKILL's, or that of a signal in the
\* moment between process.off and the end of rm.
KeysAreRemoved ==
  \A c \in Commands :
    cli[c].directory = "key" => cli[c].handled \/ cli[c].pc \in {"remove", "cut_short", "killed"}

\* Whatever is lost or dies on the way, no agent runs under an id its user has not been shown,
\* and no retry leaves a session nobody knows of: its id has been printed, or the command that
\* asked for it still asks, or has given up with an error, or was killed.
SessionsAreKnown ==
  \A s \in SessionKeys :
    /\ agents[s] # "none" => s \in printed
    /\ sessions[s].status # "ABSENT" =>
         \/ s \in printed
         \/ \E c \in Starts : /\ cli[c].session = s
                              /\ \/ cli[c].pc \in Requesting \/ cli[c].told = "error"
                                 \/ cli[c].pc \in {"signalled", "killed"}

\* An outcome that a command has told: of the agent on the devbox, or of the backend's row.
Told(c, s, outcome) == cli[c].session = s /\ cli[c].told = outcome

\* What a command tells is so.  SUCCEEDED is what the agent did, whichever side it was heard
\* from; two commands contradict each other on one session only when the backend has failed it
\* over the agent's head, as its devbox was deleted or its deadline passed.
VerdictsAgree ==
  \A s \in SessionKeys :
    /\ (\E c \in Commands : Told(c, s, "SUCCEEDED")) => agents[s] = "SUCCEEDED"
    /\ (\E c \in Commands : Told(c, s, "FAILED")) /\ agents[s] # "FAILED" =>
         /\ sessions[s].status = "FAILED"
         /\ devboxes[sessions[s].devbox] = "DELETED" \/ sessions[s].overdue
=============================================================================
