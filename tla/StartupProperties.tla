------------------------- MODULE StartupProperties -------------------------
(***************************************************************************)
(* What the start of the servers promises.                                  *)
(***************************************************************************)
EXTENDS Startup

\* The first start and the restarts.
StartCount == 0..(MaxRetries + 1)

Migrating == {"read", "apply", "commit"}

ProcessState ==
  [pc : {"down", "stopped", "lock", "seed", "insert", "reconcile", "listening"} \cup Migrating \cup Exited,
   applied : SUBSET Nat, txn : Nat]

\* The type invariant, with mutual exclusion: whoever migrates holds the lock.
TypeOK ==
  /\ lock \in Servers \cup {None}
  /\ recorded \subseteq Nat
  /\ schema \in Seq(Nat)
  /\ environment \in {None} \cup {Hash[s] : s \in Servers}
  /\ servers \in [Servers -> ProcessState]
  /\ starts \in [Servers -> StartCount]
  /\ faults \in 0..MaxFaults
  /\ \A s \in Servers : servers[s].pc \in Migrating <=> lock = s

\* The migrations take effect in the order of their names, each once and none left out, and
\* schema_migrations names exactly those, whichever processes of whichever releases apply
\* them, fail or die.
SchemaIsRecorded ==
  /\ \A i \in DOMAIN schema : schema[i] = i
  /\ recorded = DOMAIN schema

\* No start ever fails because another one migrates at the same time.
MigrationsDoNotCollide == \A s \in Servers : ~At(s, "collision")

\* A server that listens finds every migration of its release and its own environment, also
\* after servers of other releases have started.
ListensOnItsOwn ==
  \A s \in Servers :
    At(s, "listening") => 1..LastFile[s] \subseteq recorded /\ environment = Hash[s]

\* The environment devboxes refer to is chosen once, by one of the servers that race for it.
EnvironmentIsFixed == [][environment # None => environment' = environment]_environment

\* A server whose configuration is the seeded one gets to listen within the platform's
\* retries, and again after it died, although starts race for the seed and queue for the
\* lock behind processes that will never listen.  The one race it can lose costs a retry, so
\* one failure fewer than there are retries is always survived.
MatchingServersListen ==
  \A s \in Servers :
    environment = Hash[s] ~> At(s, "listening") \/ At(s, "stopped") \/ faults >= MaxRetries
=============================================================================
