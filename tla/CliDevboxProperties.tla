------------------------ MODULE CliDevboxProperties ------------------------
(***************************************************************************)
(* What the CLI's devbox commands promise, on top of the backend.           *)
(***************************************************************************)
EXTENDS CliDevboxes, DevboxProperties

Requesting == {"send", "waiting", "answered"}

CommandState ==
  [pc : {"idle", "look", "fetch", "ended"} \cup Requesting, devbox : Devboxes \cup {None},
   handler : Handlers \cup {None}, attempt : 1..Attempts, answer : RowStatus \cup {"none", "error"},
   heard : RowStatus, polls : 0..PollAttempts,
   told : {"none", "ready", "bootstrap_failed", "deleted", "timeout", "error", "internal_error"}]

\* What the step of a command takes for granted.
InOrder(c) ==
  /\ \/ cli[c].pc \in {"waiting", "answered", "look", "fetch"}
     \/ cli[c].pc = "send" /\ c \in Deletes
     \/ cli[c].told \in {"ready", "bootstrap_failed", "deleted"}
     => cli[c].devbox \in Devboxes
  /\ c \in Creates => cli[c].devbox \in {None, KeyOf[c]}
  /\ cli[c].pc = "answered" => cli[c].answer # "none"
  /\ cli[c].pc = "fetch" => cli[c].polls > 0
  /\ cli[c].pc # "ended" => cli[c].told = "none"

\* The type invariant, with the facts that a command about a devbox has one in its hands (a
\* create that of its key), an answered one an answer, and one that still looks a look left.
CliTypeOK ==
  /\ cli \in [Commands -> CommandState]
  /\ printed \subseteq Devboxes
  /\ losses \in 0..MaxLosses
  /\ \A c \in Commands : InOrder(c)

\* No retry leaves a devbox behind that nobody knows of: every row is that of an id that was
\* printed, or of a create that still asks for it or has given up with an error.  This speaks of
\* lost requests and answers; a create killed before it prints is not modelled.
DevboxesAreKnown ==
  \A d \in Devboxes :
    rows[d].status # "ABSENT" =>
      \/ d \in printed
      \/ \E c \in Creates : cli[c].devbox = d /\ (cli[c].pc \in Requesting \/ cli[c].told \in {"error", "internal_error"})

\* What a command told its user stays true, whatever handler, callback or reconciliation is
\* still under way: a devbox reported READY had been, one reported failed never becomes READY
\* and one reported DELETED stays so.
VerdictsStand ==
  \A c \in Commands :
    LET status == rows[cli[c].devbox].status IN
    /\ cli[c].told = "ready" => status \in {"READY", "DELETING", "DELETED"}
    /\ cli[c].told = "bootstrap_failed" => status \in {"FAILED", "DELETING", "DELETED"}
    /\ cli[c].told = "deleted" => status = "DELETED"

\* The three attempts and their one key get a create over a refused launch and a lost request
\* or answer: it learns its devbox, though the attempt that made it was lost.  Only an answer
\* that breaks off half way and a server that goes down can prevent it.
CreateLearnsItsDevbox ==
  \A c \in Creates :
    CliAt(c, "send") /\ cli[c].attempt = 1 /\ phase = "serving"
      ~> cli[c].devbox \in printed \/ cli[c].told = "internal_error" \/ phase = "down"

\* Every command ends, with whatever message.
CommandsEnd == \A c \in Commands : ~CliAt(c, "idle") ~> CliAt(c, "ended")
=============================================================================
