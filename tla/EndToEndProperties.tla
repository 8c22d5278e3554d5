------------------------- MODULE EndToEndProperties -------------------------
(***************************************************************************)
(* What the backend's row, the devbox and the CLI's inspection say of one    *)
(* session, taken together.                                                  *)
(***************************************************************************)
EXTENDS EndToEnd

Statuses == {"RUNNING"} \cup Outcome
Sent == {post[2] : post \in sent}

\* The type invariant of the whole, with what the exchange itself guarantees: what is on its way
\* from the session was sent there, and a poster believes only what was answered.
TypeOK ==
  /\ Runtime!TypeOK /\ Backend!TypeOK
  /\ network \subseteq Backend!AnyCallback
  /\ sent \subseteq {"start", "supervisor"} \X Statuses
  /\ recorded \subseteq Statuses
  /\ others \in [SessionKeys \ {Session} -> {"none"} \cup Statuses]
  /\ \A m \in network : m.session = Session => m.status \in Sent
  /\ posted \subseteq accepted /\ accepted \subseteq Statuses

\* The seam between the two halves, closed: put together with the real devbox in place of an
\* assumed agent, the backend still behaves as Sessions says, so that every theorem about it
\* holds of the whole.
BackendImplemented == Backend!Spec

\* A user is told RUNNING only after an agent process was spawned for the session on its
\* devbox, and SUCCEEDED only when that process has read the whole prompt, has ended cleanly,
\* its exit code is on disk and the prompt is not.  Callbacks late and repeated, replies lost,
\* servers and supervisors killed do not matter.
RowIsEarned ==
  /\ sessions[Session].status = "RUNNING" => spawned = 1
  /\ sessions[Session].status = "SUCCEEDED" =>
       agent = "zero" /\ transport = "sent" /\ files.exit = "zero" /\ files.prompt = "absent"

\* The token on the devbox is what a later report of the outcome would need.  It is dropped
\* only when the row is terminal, so that no session is left active in the backend with
\* nobody able to end it.
TokenGoneRowFinal ==
  files.state # "absent" /\ files.token = "absent" => sessions[Session].status \in TerminalSession

\* A terminal row and an inspection of the devbox never disagree on the outcome, unless the
\* backend failed the session for its devbox's deletion or for its deadline.
RowAgreesWithReport ==
  \A i \in Inspectors :
    /\ inspectors[i].report \in Outcome
    /\ sessions[Session].status \in TerminalSession
    /\ inspectors[i].report # sessions[Session].status
    => /\ sessions[Session].status = "FAILED"
       /\ devboxes[sessions[Session].devbox] = "DELETED" \/ sessions[Session].overdue
=============================================================================
